---------------------------- MODULE Spec2Model ----------------------------
(***************************************************************************)
(* GRAVITYchat: a retrieval-augmented question-answering service.  The    *)
(* model follows the Python sources: the demo application (app/main.py:   *)
(* the /ask handler over three fixture documents), the document retriever *)
(* (app/retriever.py), the response generator (app/generator.py) and the  *)
(* prompt manager (app/prompts.py); and the bibliography ingestion        *)
(* (ingestion/zotero_sync.py).                                             *)
(*                                                                         *)
(* Python strings are sequences of one-character strings, so that lower(), *)
(* split(), strip() and the substring test `in` are computed as Python     *)
(* computes them.  A character outside ASCII is the one element "U+XXXX".  *)
(* An Optional[T] value is None (the empty tuple) or Some(v) (a 1-tuple).  *)
(***************************************************************************)
EXTENDS Integers, Sequences, FiniteSets, TLC

VARIABLES
    \* ---- app/main.py: one POST /ask request at a time
    ask_pc,          \* position of the /ask handler
    request_body,    \* the JSON body that was posted
    request,         \* the validated ChatRequest
    retrieved_docs,  \* local variable retrieved_docs of ask_question
    response,        \* local variable response of ask_question (the answer text)
    http_status,     \* status code of the HTTP response (0: none yet)
    chat_response,   \* the ChatResponse returned, None when there is none
    calls,           \* pipeline functions the handler has invoked, in order
    \* ---- app/retriever.py: a DocumentRetriever object
    ret_pc,          \* "idle" (no object), "ready", "done"
    ret_settings,    \* self.settings
    search_client,   \* self.search_client: "unset", "azure" or "mock"
    ret_args,        \* arguments of the retrieve_documents call
    ret_backend,     \* what the search backend did for this call
    ret_result,      \* the returned list of DocumentChunk, or the exception raised
    \* ---- app/generator.py: a ResponseGenerator object
    gen_pc,          \* "idle" (no object), "ready", "done"
    client,          \* self.client: "unset", "none" (None) or "azure"
    gen_args,        \* arguments of the generate_response call
    gen_backend,     \* what the completion backend did for this call
    gen_result,      \* the returned text, or the exception raised
    gen_again,       \* a second generate_response call with the same user_prompt
    healthy,         \* what health_check returned, None when it was not called
    \* ---- app/prompts.py: a RAGPromptManager object
    pm_pc,           \* "idle", "done"
    pm_op,           \* which method was called
    pm_args,         \* its arguments
    pm_result,       \* its return value, or the exception raised
    \* ---- ingestion/zotero_sync.py: a ZoteroIngestion object
    zot_pc,          \* "idle", "done"
    zot_op,          \* which method was called
    zot_args,        \* its arguments
    zot_backend,     \* what the bibliography API did for this call
    zot_result,      \* its return value, or the exception raised
    \* ---- app/main.py: the server handling /ask requests concurrently
    handlers,        \* per request in flight: the handler's position and locals
    document_store,  \* the module global MOCK_DOCUMENTS, as it is now
    \* ---- the external backends
    backend_calls    \* calls made to a backend by the operation in progress

ask_vars == <<ask_pc, request_body, request, retrieved_docs, response,
              http_status, chat_response, calls>>
ret_vars == <<ret_pc, ret_settings, search_client, ret_args, ret_backend, ret_result>>
gen_vars == <<gen_pc, client, gen_args, gen_backend, gen_result, gen_again, healthy>>
pm_vars  == <<pm_pc, pm_op, pm_args, pm_result>>
zot_vars == <<zot_pc, zot_op, zot_args, zot_backend, zot_result>>
srv_vars == <<handlers, document_store>>
vars     == <<ask_vars, ret_vars, gen_vars, pm_vars, zot_vars, srv_vars, backend_calls>>

---------------------------------------------------------------------------
(* Python values                                                           *)

None == << >>
Some(v) == <<v>>

\* The empty str and the empty list.
EmptyStr == << >>
EmptyList == << >>

\* A key of a JSON body or of a dict: absent, or present with a value.
Absent == << >>
Present(v) == <<v>>

Range(s) == {s[i] : i \in DOMAIN s}

Min(a, b) == IF a <= b THEN a ELSE b
Max(a, b) == IF a >= b THEN a ELSE b

\* str.lower() on one character (ASCII letters; any other character is kept).
UpperToLower ==
    [A |-> "a", B |-> "b", C |-> "c", D |-> "d", E |-> "e", F |-> "f", G |-> "g",
     H |-> "h", I |-> "i", J |-> "j", K |-> "k", L |-> "l", M |-> "m", N |-> "n",
     O |-> "o", P |-> "p", Q |-> "q", R |-> "r", S |-> "s", T |-> "t", U |-> "u",
     V |-> "v", W |-> "w", X |-> "x", Y |-> "y", Z |-> "z"]

LowerChar(c) == IF c \in DOMAIN UpperToLower THEN UpperToLower[c] ELSE c

\* str.lower()
lower(s) == [i \in 1..Len(s) |-> LowerChar(s[i])]

\* The characters str.split() and str.strip() treat as whitespace.
Whitespace == {" ", "\t", "\n", "\r", "U+000B", "U+000C"}

\* `sub in s` for two str.
Contains(sub, s) ==
    \E i \in 0..(Len(s) - Len(sub)) :
        \A j \in 1..Len(sub) : s[i + j] = sub[j]

\* A split at each single blank, as str.split(" ") does: empty words are kept.
split_OnBlank(s) ==
    LET RECURSIVE pieces(_)
        pieces(rest) ==
            LET hits == {i \in 1..Len(rest) : rest[i] = " "}
                first == CHOOSE i \in hits : \A k \in hits : i <= k
            IN  IF hits = {} THEN <<rest>>
                ELSE <<SubSeq(rest, 1, first - 1)>> \o pieces(SubSeq(rest, first + 1, Len(rest)))
    IN  pieces(s)

\* str.split() without a separator: the maximal runs of non-whitespace.
RECURSIVE SplitFrom(_, _, _, _)
SplitFrom(s, i, word, out) ==
    IF i > Len(s)
    THEN IF word = EmptyStr THEN out ELSE Append(out, word)
    ELSE IF s[i] \in Whitespace
         THEN SplitFrom(s, i + 1, EmptyStr,
                        IF word = EmptyStr THEN out ELSE Append(out, word))
         ELSE SplitFrom(s, i + 1, Append(word, s[i]), out)

split(s) == SplitFrom(s, 1, EmptyStr, EmptyList)

\* str.find(sep): the least index (from 1) at which sep occurs in s, 0 if none.
Find(s, sep) ==
    LET hits == {i \in 1..(Len(s) - Len(sep) + 1) :
                    \A j \in 1..Len(sep) : s[i + j - 1] = sep[j]}
    IN  IF hits = {} THEN 0 ELSE CHOOSE i \in hits : \A k \in hits : i <= k

\* str.split(sep) with a non-empty separator.
RECURSIVE SplitOn(_, _)
SplitOn(s, sep) ==
    LET i == Find(s, sep)
    IN  IF i = 0
        THEN <<s>>
        ELSE <<SubSeq(s, 1, i - 1)>> \o SplitOn(SubSeq(s, i + Len(sep), Len(s)), sep)

\* str.strip()
strip(s) ==
    LET keep == {i \in 1..Len(s) : s[i] \notin Whitespace}
    IN  IF keep = {}
        THEN EmptyStr
        ELSE SubSeq(s, CHOOSE i \in keep : \A k \in keep : i <= k,
                       CHOOSE i \in keep : \A k \in keep : i >= k)

\* A slice that stops one element early.
PySliceTo_OffByOne(seq, stop) ==
    IF stop = None
    THEN seq
    ELSE IF stop[1] < 0
         THEN SubSeq(seq, 1, Max(Len(seq) + stop[1] - 1, 0))
         ELSE SubSeq(seq, 1, Min(stop[1] - 1, Len(seq)))

\* seq[:stop] for stop an Optional[int] (a negative stop counts from the end).
PySliceTo(seq, stop) ==
    IF stop = None
    THEN seq
    ELSE IF stop[1] < 0
         THEN SubSeq(seq, 1, Max(Len(seq) + stop[1], 0))
         ELSE SubSeq(seq, 1, Min(stop[1], Len(seq)))

---------------------------------------------------------------------------
(* app/main.py: fixture documents and canned answers                       *)

\* src/app/main.py:63-91  MOCK_DOCUMENTS (a list of dicts)
MOCK_DOCUMENTS ==
    << [ id |->
             <<"m", "o", "c", "k", "-", "1">>,
         content |->
             <<"L", "I", "G", "O", " ", "(", "L", "a", "s", "e", "r", " ", "I", "n", "t", "e",
               "r", "f", "e", "r", "o", "m", "e", "t", "e", "r", " ", "G", "r", "a", "v", "i",
               "t", "a", "t", "i", "o", "n", "a", "l", "-", "W", "a", "v", "e", " ", "O", "b",
               "s", "e", "r", "v", "a", "t", "o", "r", "y", ")", " ", "i", "s", " ", "a", " ",
               "l", "a", "r", "g", "e", "-", "s", "c", "a", "l", "e", " ", "p", "h", "y", "s",
               "i", "c", "s", " ", "e", "x", "p", "e", "r", "i", "m", "e", "n", "t", " ", "d",
               "e", "s", "i", "g", "n", "e", "d", " ", "t", "o", " ", "d", "e", "t", "e", "c",
               "t", " ", "c", "o", "s", "m", "i", "c", " ", "g", "r", "a", "v", "i", "t", "a",
               "t", "i", "o", "n", "a", "l", " ", "w", "a", "v", "e", "s", ".", " ", "T", "h",
               "e", " ", "o", "b", "s", "e", "r", "v", "a", "t", "o", "r", "y", " ", "u", "s",
               "e", "s", " ", "l", "a", "s", "e", "r", " ", "i", "n", "t", "e", "r", "f", "e",
               "r", "o", "m", "e", "t", "r", "y", " ", "t", "o", " ", "m", "e", "a", "s", "u",
               "r", "e", " ", "t", "h", "e", " ", "m", "i", "n", "u", "t", "e", " ", "r", "i",
               "p", "p", "l", "e", "s", " ", "i", "n", " ", "s", "p", "a", "c", "e", "-", "t",
               "i", "m", "e", " ", "c", "a", "u", "s", "e", "d", " ", "b", "y", " ", "p", "a",
               "s", "s", "i", "n", "g", " ", "g", "r", "a", "v", "i", "t", "a", "t", "i", "o",
               "n", "a", "l", " ", "w", "a", "v", "e", "s", " ", "f", "r", "o", "m", " ", "c",
               "a", "t", "a", "c", "l", "y", "s", "m", "i", "c", " ", "c", "o", "s", "m", "i",
               "c", " ", "e", "v", "e", "n", "t", "s", " ", "s", "u", "c", "h", " ", "a", "s",
               " ", "m", "e", "r", "g", "i", "n", "g", " ", "n", "e", "u", "t", "r", "o", "n",
               " ", "s", "t", "a", "r", "s", " ", "o", "r", " ", "b", "l", "a", "c", "k", " ",
               "h", "o", "l", "e", "s", ".">>,
         title |->
             <<"I", "n", "t", "r", "o", "d", "u", "c", "t", "i", "o", "n", " ", "t", "o", " ",
               "L", "I", "G", "O">>,
         authors |->
             <<"L", "I", "G", "O", " ", "S", "c", "i", "e", "n", "t", "i", "f", "i", "c", " ",
               "C", "o", "l", "l", "a", "b", "o", "r", "a", "t", "i", "o", "n">>,
         url |->
             <<"h", "t", "t", "p", "s", ":", "/", "/", "w", "w", "w", ".", "l", "i", "g", "o",
               ".", "o", "r", "g", "/", "s", "c", "i", "e", "n", "c", "e", ".", "p", "h", "p">>,
         year |-> 2023,
         source |->
             <<"L", "I", "G", "O", " ", "D", "o", "c", "u", "m", "e", "n", "t", "a", "t", "i",
               "o", "n">> ],
       [ id |->
             <<"m", "o", "c", "k", "-", "2">>,
         content |->
             <<"G", "r", "a", "v", "i", "t", "y", " ", "S", "p", "y", " ", "i", "s", " ", "a",
               " ", "c", "i", "t", "i", "z", "e", "n", " ", "s", "c", "i", "e", "n", "c", "e",
               " ", "p", "r", "o", "j", "e", "c", "t", " ", "t", "h", "a", "t", " ", "h", "e",
               "l", "p", "s", " ", "c", "l", "a", "s", "s", "i", "f", "y", " ", "g", "l", "i",
               "t", "c", "h", "e", "s", " ", "i", "n", " ", "L", "I", "G", "O", " ", "d", "a",
               "t", "a", ".", " ", "V", "o", "l", "u", "n", "t", "e", "e", "r", "s", " ", "e",
               "x", "a", "m", "i", "n", "e", " ", "s", "p", "e", "c", "t", "r", "o", "g", "r",
               "a", "m", "s", " ", "o", "f", " ", "g", "r", "a", "v", "i", "t", "a", "t", "i",
               "o", "n", "a", "l", " ", "w", "a", "v", "e", " ", "d", "e", "t", "e", "c", "t",
               "o", "r", " ", "n", "o", "i", "s", "e", " ", "t", "o", " ", "i", "d", "e", "n",
               "t", "i", "f", "y", " ", "a", "n", "d", " ", "c", "a", "t", "e", "g", "o", "r",
               "i", "z", "e", " ", "d", "i", "f", "f", "e", "r", "e", "n", "t", " ", "t", "y",
               "p", "e", "s", " ", "o", "f", " ", "i", "n", "s", "t", "r", "u", "m", "e", "n",
               "t", "a", "l", " ", "a", "r", "t", "i", "f", "a", "c", "t", "s", " ", "t", "h",
               "a", "t", " ", "c", "o", "u", "l", "d", " ", "i", "n", "t", "e", "r", "f", "e",
               "r", "e", " ", "w", "i", "t", "h", " ", "g", "r", "a", "v", "i", "t", "a", "t",
               "i", "o", "n", "a", "l", " ", "w", "a", "v", "e", " ", "d", "e", "t", "e", "c",
               "t", "i", "o", "n", ".">>,
         title |->
             <<"G", "r", "a", "v", "i", "t", "y", " ", "S", "p", "y", " ", "C", "i", "t", "i",
               "z", "e", "n", " ", "S", "c", "i", "e", "n", "c", "e">>,
         authors |->
             <<"G", "r", "a", "v", "i", "t", "y", " ", "S", "p", "y", " ", "T", "e", "a", "m">>,
         url |->
             <<"h", "t", "t", "p", "s", ":", "/", "/", "w", "w", "w", ".", "z", "o", "o", "n",
               "i", "v", "e", "r", "s", "e", ".", "o", "r", "g", "/", "p", "r", "o", "j", "e",
               "c", "t", "s", "/", "z", "o", "o", "n", "i", "v", "e", "r", "s", "e", "/", "g",
               "r", "a", "v", "i", "t", "y", "-", "s", "p", "y">>,
         year |-> 2024,
         source |->
             <<"Z", "o", "o", "n", "i", "v", "e", "r", "s", "e">> ],
       [ id |->
             <<"m", "o", "c", "k", "-", "3">>,
         content |->
             <<"a", "L", "O", "G", "s", " ", "(", "L", "I", "G", "O", " ", "O", "n", "l", "i",
               "n", "e", " ", "G", "l", "i", "t", "c", "h", " ", "D", "a", "t", "a", "b", "a",
               "s", "e", ")", " ", "c", "o", "n", "t", "a", "i", "n", " ", "d", "e", "t", "a",
               "i", "l", "e", "d", " ", "i", "n", "f", "o", "r", "m", "a", "t", "i", "o", "n",
               " ", "a", "b", "o", "u", "t", " ", "i", "n", "s", "t", "r", "u", "m", "e", "n",
               "t", "a", "l", " ", "g", "l", "i", "t", "c", "h", "e", "s", " ", "d", "e", "t",
               "e", "c", "t", "e", "d", " ", "i", "n", " ", "L", "I", "G", "O", " ", "d", "a",
               "t", "a", ".", " ", "T", "h", "e", "s", "e", " ", "l", "o", "g", "s", " ", "h",
               "e", "l", "p", " ", "s", "c", "i", "e", "n", "t", "i", "s", "t", "s", " ", "u",
               "n", "d", "e", "r", "s", "t", "a", "n", "d", " ", "t", "h", "e", " ", "s", "o",
               "u", "r", "c", "e", "s", " ", "o", "f", " ", "n", "o", "i", "s", "e", " ", "a",
               "n", "d", " ", "i", "m", "p", "r", "o", "v", "e", " ", "d", "e", "t", "e", "c",
               "t", "o", "r", " ", "s", "e", "n", "s", "i", "t", "i", "v", "i", "t", "y", " ",
               "b", "y", " ", "i", "d", "e", "n", "t", "i", "f", "y", "i", "n", "g", " ", "a",
               "n", "d", " ", "m", "i", "t", "i", "g", "a", "t", "i", "n", "g", " ", "s", "y",
               "s", "t", "e", "m", "a", "t", "i", "c", " ", "i", "s", "s", "u", "e", "s", ".">>,
         title |->
             <<"U", "n", "d", "e", "r", "s", "t", "a", "n", "d", "i", "n", "g", " ", "a", "L",
               "O", "G", "s">>,
         authors |->
             <<"L", "I", "G", "O", " ", "D", "e", "t", "e", "c", "t", "o", "r", " ", "C", "h",
               "a", "r", "a", "c", "t", "e", "r", "i", "z", "a", "t", "i", "o", "n", " ", "G",
               "r", "o", "u", "p">>,
         url |->
             <<"h", "t", "t", "p", "s", ":", "/", "/", "a", "l", "o", "g", ".", "l", "i", "g",
               "o", "-", "w", "a", ".", "c", "a", "l", "t", "e", "c", "h", ".", "e", "d", "u",
               "/">>,
         year |-> 2023,
         source |->
             <<"a", "L", "O", "G", " ", "D", "a", "t", "a", "b", "a", "s", "e">> ] >>

\* src/app/main.py:105-132,165  the literal answers of generate_mock_response and of the empty-retrieval response
\* ligo (main.py:110-112): "Based on the LIGO/Gravity Spy knowledge base, LIGO
\* (Laser Interferometer Gravitational-Wave Observatory) is a large-scale
\* physics experiment designed to detect cosmic gravitational waves. The
\* observatory uses laser interferometry to measure minute ripples in space-
\* time caused by passing gravitational waves from cataclysmic cosmic events
\* such as merging neutron stars or black holes.\n\nLIGO consists of two
\* identical detectors located in Livingston, Louisiana, and Hanford,
\* Washington. Each detector uses laser interferometry to detect gravitational
\* waves by measuring tiny changes in the length of 4-kilometer-long arms
\* arranged in an L-shape."
\* gravity_spy (main.py:115-117): "Gravity Spy is a citizen science project
\* that helps classify glitches in LIGO data. Volunteers examine spectrograms
\* of gravitational wave detector noise to identify and categorize different
\* types of instrumental artifacts that could interfere with gravitational wave
\* detection.\n\nThe project uses machine learning combined with human
\* expertise to improve the classification of detector glitches, which helps
\* scientists understand and mitigate sources of noise in the LIGO detectors."
\* alog (main.py:120-122): "aLOGs (LIGO Online Glitch Database) contain
\* detailed information about instrumental glitches detected in LIGO data.
\* These logs help scientists understand the sources of noise and improve
\* detector sensitivity by identifying and mitigating systematic
\* issues.\n\nGlitches in LIGO data are instrumental artifacts that can
\* interfere with gravitational wave detection. They can be caused by various
\* sources including environmental factors, detector hardware issues, or
\* external disturbances."
\* generic_head (main.py:125, before {question}): "Thank you for your question
\* about '"
\* generic_tail (main.py:125-132, after {question}): "'. Based on the available
\* LIGO and Gravity Spy documentation, I can provide information
\* about:\n\nU+2022 **LIGO Technology**: Gravitational wave detectors,
\* interferometry, and sensitivity\nU+2022 **Gravity Spy**: Citizen science
\* project for glitch classification  \nU+2022 **aLOGs**: LIGO Online Glitch
\* Database for detector characterization\nU+2022 **Scientific Results**:
\* Gravitational wave detections and astrophysics\n\nCould you please be more
\* specific about what aspect you'd like to learn about?"
\* no_info (main.py:165): "I couldn't find relevant information in our
\* knowledge base to answer your question. Please try rephrasing your question
\* or contact a LIGO scientist for assistance."
DEMO_ANSWER ==
    [ ligo |->
          <<"B", "a", "s", "e", "d", " ", "o", "n", " ", "t", "h", "e", " ", "L", "I", "G",
            "O", "/", "G", "r", "a", "v", "i", "t", "y", " ", "S", "p", "y", " ", "k", "n",
            "o", "w", "l", "e", "d", "g", "e", " ", "b", "a", "s", "e", ",", " ", "L", "I",
            "G", "O", " ", "(", "L", "a", "s", "e", "r", " ", "I", "n", "t", "e", "r", "f",
            "e", "r", "o", "m", "e", "t", "e", "r", " ", "G", "r", "a", "v", "i", "t", "a",
            "t", "i", "o", "n", "a", "l", "-", "W", "a", "v", "e", " ", "O", "b", "s", "e",
            "r", "v", "a", "t", "o", "r", "y", ")", " ", "i", "s", " ", "a", " ", "l", "a",
            "r", "g", "e", "-", "s", "c", "a", "l", "e", " ", "p", "h", "y", "s", "i", "c",
            "s", " ", "e", "x", "p", "e", "r", "i", "m", "e", "n", "t", " ", "d", "e", "s",
            "i", "g", "n", "e", "d", " ", "t", "o", " ", "d", "e", "t", "e", "c", "t", " ",
            "c", "o", "s", "m", "i", "c", " ", "g", "r", "a", "v", "i", "t", "a", "t", "i",
            "o", "n", "a", "l", " ", "w", "a", "v", "e", "s", ".", " ", "T", "h", "e", " ",
            "o", "b", "s", "e", "r", "v", "a", "t", "o", "r", "y", " ", "u", "s", "e", "s",
            " ", "l", "a", "s", "e", "r", " ", "i", "n", "t", "e", "r", "f", "e", "r", "o",
            "m", "e", "t", "r", "y", " ", "t", "o", " ", "m", "e", "a", "s", "u", "r", "e",
            " ", "m", "i", "n", "u", "t", "e", " ", "r", "i", "p", "p", "l", "e", "s", " ",
            "i", "n", " ", "s", "p", "a", "c", "e", "-", "t", "i", "m", "e", " ", "c", "a",
            "u", "s", "e", "d", " ", "b", "y", " ", "p", "a", "s", "s", "i", "n", "g", " ",
            "g", "r", "a", "v", "i", "t", "a", "t", "i", "o", "n", "a", "l", " ", "w", "a",
            "v", "e", "s", " ", "f", "r", "o", "m", " ", "c", "a", "t", "a", "c", "l", "y",
            "s", "m", "i", "c", " ", "c", "o", "s", "m", "i", "c", " ", "e", "v", "e", "n",
            "t", "s", " ", "s", "u", "c", "h", " ", "a", "s", " ", "m", "e", "r", "g", "i",
            "n", "g", " ", "n", "e", "u", "t", "r", "o", "n", " ", "s", "t", "a", "r", "s",
            " ", "o", "r", " ", "b", "l", "a", "c", "k", " ", "h", "o", "l", "e", "s", ".",
            "\n", "\n", "L", "I", "G", "O", " ", "c", "o", "n", "s", "i", "s", "t", "s", " ",
            "o", "f", " ", "t", "w", "o", " ", "i", "d", "e", "n", "t", "i", "c", "a", "l",
            " ", "d", "e", "t", "e", "c", "t", "o", "r", "s", " ", "l", "o", "c", "a", "t",
            "e", "d", " ", "i", "n", " ", "L", "i", "v", "i", "n", "g", "s", "t", "o", "n",
            ",", " ", "L", "o", "u", "i", "s", "i", "a", "n", "a", ",", " ", "a", "n", "d",
            " ", "H", "a", "n", "f", "o", "r", "d", ",", " ", "W", "a", "s", "h", "i", "n",
            "g", "t", "o", "n", ".", " ", "E", "a", "c", "h", " ", "d", "e", "t", "e", "c",
            "t", "o", "r", " ", "u", "s", "e", "s", " ", "l", "a", "s", "e", "r", " ", "i",
            "n", "t", "e", "r", "f", "e", "r", "o", "m", "e", "t", "r", "y", " ", "t", "o",
            " ", "d", "e", "t", "e", "c", "t", " ", "g", "r", "a", "v", "i", "t", "a", "t",
            "i", "o", "n", "a", "l", " ", "w", "a", "v", "e", "s", " ", "b", "y", " ", "m",
            "e", "a", "s", "u", "r", "i", "n", "g", " ", "t", "i", "n", "y", " ", "c", "h",
            "a", "n", "g", "e", "s", " ", "i", "n", " ", "t", "h", "e", " ", "l", "e", "n",
            "g", "t", "h", " ", "o", "f", " ", "4", "-", "k", "i", "l", "o", "m", "e", "t",
            "e", "r", "-", "l", "o", "n", "g", " ", "a", "r", "m", "s", " ", "a", "r", "r",
            "a", "n", "g", "e", "d", " ", "i", "n", " ", "a", "n", " ", "L", "-", "s", "h",
            "a", "p", "e", ".">>,
      gravity_spy |->
          <<"G", "r", "a", "v", "i", "t", "y", " ", "S", "p", "y", " ", "i", "s", " ", "a",
            " ", "c", "i", "t", "i", "z", "e", "n", " ", "s", "c", "i", "e", "n", "c", "e",
            " ", "p", "r", "o", "j", "e", "c", "t", " ", "t", "h", "a", "t", " ", "h", "e",
            "l", "p", "s", " ", "c", "l", "a", "s", "s", "i", "f", "y", " ", "g", "l", "i",
            "t", "c", "h", "e", "s", " ", "i", "n", " ", "L", "I", "G", "O", " ", "d", "a",
            "t", "a", ".", " ", "V", "o", "l", "u", "n", "t", "e", "e", "r", "s", " ", "e",
            "x", "a", "m", "i", "n", "e", " ", "s", "p", "e", "c", "t", "r", "o", "g", "r",
            "a", "m", "s", " ", "o", "f", " ", "g", "r", "a", "v", "i", "t", "a", "t", "i",
            "o", "n", "a", "l", " ", "w", "a", "v", "e", " ", "d", "e", "t", "e", "c", "t",
            "o", "r", " ", "n", "o", "i", "s", "e", " ", "t", "o", " ", "i", "d", "e", "n",
            "t", "i", "f", "y", " ", "a", "n", "d", " ", "c", "a", "t", "e", "g", "o", "r",
            "i", "z", "e", " ", "d", "i", "f", "f", "e", "r", "e", "n", "t", " ", "t", "y",
            "p", "e", "s", " ", "o", "f", " ", "i", "n", "s", "t", "r", "u", "m", "e", "n",
            "t", "a", "l", " ", "a", "r", "t", "i", "f", "a", "c", "t", "s", " ", "t", "h",
            "a", "t", " ", "c", "o", "u", "l", "d", " ", "i", "n", "t", "e", "r", "f", "e",
            "r", "e", " ", "w", "i", "t", "h", " ", "g", "r", "a", "v", "i", "t", "a", "t",
            "i", "o", "n", "a", "l", " ", "w", "a", "v", "e", " ", "d", "e", "t", "e", "c",
            "t", "i", "o", "n", ".", "\n", "\n", "T", "h", "e", " ", "p", "r", "o", "j", "e",
            "c", "t", " ", "u", "s", "e", "s", " ", "m", "a", "c", "h", "i", "n", "e", " ",
            "l", "e", "a", "r", "n", "i", "n", "g", " ", "c", "o", "m", "b", "i", "n", "e",
            "d", " ", "w", "i", "t", "h", " ", "h", "u", "m", "a", "n", " ", "e", "x", "p",
            "e", "r", "t", "i", "s", "e", " ", "t", "o", " ", "i", "m", "p", "r", "o", "v",
            "e", " ", "t", "h", "e", " ", "c", "l", "a", "s", "s", "i", "f", "i", "c", "a",
            "t", "i", "o", "n", " ", "o", "f", " ", "d", "e", "t", "e", "c", "t", "o", "r",
            " ", "g", "l", "i", "t", "c", "h", "e", "s", ",", " ", "w", "h", "i", "c", "h",
            " ", "h", "e", "l", "p", "s", " ", "s", "c", "i", "e", "n", "t", "i", "s", "t",
            "s", " ", "u", "n", "d", "e", "r", "s", "t", "a", "n", "d", " ", "a", "n", "d",
            " ", "m", "i", "t", "i", "g", "a", "t", "e", " ", "s", "o", "u", "r", "c", "e",
            "s", " ", "o", "f", " ", "n", "o", "i", "s", "e", " ", "i", "n", " ", "t", "h",
            "e", " ", "L", "I", "G", "O", " ", "d", "e", "t", "e", "c", "t", "o", "r", "s",
            ".">>,
      alog |->
          <<"a", "L", "O", "G", "s", " ", "(", "L", "I", "G", "O", " ", "O", "n", "l", "i",
            "n", "e", " ", "G", "l", "i", "t", "c", "h", " ", "D", "a", "t", "a", "b", "a",
            "s", "e", ")", " ", "c", "o", "n", "t", "a", "i", "n", " ", "d", "e", "t", "a",
            "i", "l", "e", "d", " ", "i", "n", "f", "o", "r", "m", "a", "t", "i", "o", "n",
            " ", "a", "b", "o", "u", "t", " ", "i", "n", "s", "t", "r", "u", "m", "e", "n",
            "t", "a", "l", " ", "g", "l", "i", "t", "c", "h", "e", "s", " ", "d", "e", "t",
            "e", "c", "t", "e", "d", " ", "i", "n", " ", "L", "I", "G", "O", " ", "d", "a",
            "t", "a", ".", " ", "T", "h", "e", "s", "e", " ", "l", "o", "g", "s", " ", "h",
            "e", "l", "p", " ", "s", "c", "i", "e", "n", "t", "i", "s", "t", "s", " ", "u",
            "n", "d", "e", "r", "s", "t", "a", "n", "d", " ", "t", "h", "e", " ", "s", "o",
            "u", "r", "c", "e", "s", " ", "o", "f", " ", "n", "o", "i", "s", "e", " ", "a",
            "n", "d", " ", "i", "m", "p", "r", "o", "v", "e", " ", "d", "e", "t", "e", "c",
            "t", "o", "r", " ", "s", "e", "n", "s", "i", "t", "i", "v", "i", "t", "y", " ",
            "b", "y", " ", "i", "d", "e", "n", "t", "i", "f", "y", "i", "n", "g", " ", "a",
            "n", "d", " ", "m", "i", "t", "i", "g", "a", "t", "i", "n", "g", " ", "s", "y",
            "s", "t", "e", "m", "a", "t", "i", "c", " ", "i", "s", "s", "u", "e", "s", ".",
            "\n", "\n", "G", "l", "i", "t", "c", "h", "e", "s", " ", "i", "n", " ", "L", "I",
            "G", "O", " ", "d", "a", "t", "a", " ", "a", "r", "e", " ", "i", "n", "s", "t",
            "r", "u", "m", "e", "n", "t", "a", "l", " ", "a", "r", "t", "i", "f", "a", "c",
            "t", "s", " ", "t", "h", "a", "t", " ", "c", "a", "n", " ", "i", "n", "t", "e",
            "r", "f", "e", "r", "e", " ", "w", "i", "t", "h", " ", "g", "r", "a", "v", "i",
            "t", "a", "t", "i", "o", "n", "a", "l", " ", "w", "a", "v", "e", " ", "d", "e",
            "t", "e", "c", "t", "i", "o", "n", ".", " ", "T", "h", "e", "y", " ", "c", "a",
            "n", " ", "b", "e", " ", "c", "a", "u", "s", "e", "d", " ", "b", "y", " ", "v",
            "a", "r", "i", "o", "u", "s", " ", "s", "o", "u", "r", "c", "e", "s", " ", "i",
            "n", "c", "l", "u", "d", "i", "n", "g", " ", "e", "n", "v", "i", "r", "o", "n",
            "m", "e", "n", "t", "a", "l", " ", "f", "a", "c", "t", "o", "r", "s", ",", " ",
            "d", "e", "t", "e", "c", "t", "o", "r", " ", "h", "a", "r", "d", "w", "a", "r",
            "e", " ", "i", "s", "s", "u", "e", "s", ",", " ", "o", "r", " ", "e", "x", "t",
            "e", "r", "n", "a", "l", " ", "d", "i", "s", "t", "u", "r", "b", "a", "n", "c",
            "e", "s", ".">>,
      generic_head |->
          <<"T", "h", "a", "n", "k", " ", "y", "o", "u", " ", "f", "o", "r", " ", "y", "o",
            "u", "r", " ", "q", "u", "e", "s", "t", "i", "o", "n", " ", "a", "b", "o", "u",
            "t", " ", "'">>,
      generic_tail |->
          <<"'", ".", " ", "B", "a", "s", "e", "d", " ", "o", "n", " ", "t", "h", "e", " ",
            "a", "v", "a", "i", "l", "a", "b", "l", "e", " ", "L", "I", "G", "O", " ", "a",
            "n", "d", " ", "G", "r", "a", "v", "i", "t", "y", " ", "S", "p", "y", " ", "d",
            "o", "c", "u", "m", "e", "n", "t", "a", "t", "i", "o", "n", ",", " ", "I", " ",
            "c", "a", "n", " ", "p", "r", "o", "v", "i", "d", "e", " ", "i", "n", "f", "o",
            "r", "m", "a", "t", "i", "o", "n", " ", "a", "b", "o", "u", "t", ":", "\n", "\n",
            "U+2022", " ", "*", "*", "L", "I", "G", "O", " ", "T", "e", "c", "h", "n", "o", "l",
            "o", "g", "y", "*", "*", ":", " ", "G", "r", "a", "v", "i", "t", "a", "t", "i",
            "o", "n", "a", "l", " ", "w", "a", "v", "e", " ", "d", "e", "t", "e", "c", "t",
            "o", "r", "s", ",", " ", "i", "n", "t", "e", "r", "f", "e", "r", "o", "m", "e",
            "t", "r", "y", ",", " ", "a", "n", "d", " ", "s", "e", "n", "s", "i", "t", "i",
            "v", "i", "t", "y", "\n", "U+2022", " ", "*", "*", "G", "r", "a", "v", "i", "t", "y",
            " ", "S", "p", "y", "*", "*", ":", " ", "C", "i", "t", "i", "z", "e", "n", " ",
            "s", "c", "i", "e", "n", "c", "e", " ", "p", "r", "o", "j", "e", "c", "t", " ",
            "f", "o", "r", " ", "g", "l", "i", "t", "c", "h", " ", "c", "l", "a", "s", "s",
            "i", "f", "i", "c", "a", "t", "i", "o", "n", " ", " ", "\n", "U+2022", " ", "*", "*",
            "a", "L", "O", "G", "s", "*", "*", ":", " ", "L", "I", "G", "O", " ", "O", "n",
            "l", "i", "n", "e", " ", "G", "l", "i", "t", "c", "h", " ", "D", "a", "t", "a",
            "b", "a", "s", "e", " ", "f", "o", "r", " ", "d", "e", "t", "e", "c", "t", "o",
            "r", " ", "c", "h", "a", "r", "a", "c", "t", "e", "r", "i", "z", "a", "t", "i",
            "o", "n", "\n", "U+2022", " ", "*", "*", "S", "c", "i", "e", "n", "t", "i", "f", "i",
            "c", " ", "R", "e", "s", "u", "l", "t", "s", "*", "*", ":", " ", "G", "r", "a",
            "v", "i", "t", "a", "t", "i", "o", "n", "a", "l", " ", "w", "a", "v", "e", " ",
            "d", "e", "t", "e", "c", "t", "i", "o", "n", "s", " ", "a", "n", "d", " ", "a",
            "s", "t", "r", "o", "p", "h", "y", "s", "i", "c", "s", "\n", "\n", "C", "o", "u",
            "l", "d", " ", "y", "o", "u", " ", "p", "l", "e", "a", "s", "e", " ", "b", "e",
            " ", "m", "o", "r", "e", " ", "s", "p", "e", "c", "i", "f", "i", "c", " ", "a",
            "b", "o", "u", "t", " ", "w", "h", "a", "t", " ", "a", "s", "p", "e", "c", "t",
            " ", "y", "o", "u", "'", "d", " ", "l", "i", "k", "e", " ", "t", "o", " ", "l",
            "e", "a", "r", "n", " ", "a", "b", "o", "u", "t", "?">>,
      no_info |->
          <<"I", " ", "c", "o", "u", "l", "d", "n", "'", "t", " ", "f", "i", "n", "d", " ",
            "r", "e", "l", "e", "v", "a", "n", "t", " ", "i", "n", "f", "o", "r", "m", "a",
            "t", "i", "o", "n", " ", "i", "n", " ", "o", "u", "r", " ", "k", "n", "o", "w",
            "l", "e", "d", "g", "e", " ", "b", "a", "s", "e", " ", "t", "o", " ", "a", "n",
            "s", "w", "e", "r", " ", "y", "o", "u", "r", " ", "q", "u", "e", "s", "t", "i",
            "o", "n", ".", " ", "P", "l", "e", "a", "s", "e", " ", "t", "r", "y", " ", "r",
            "e", "p", "h", "r", "a", "s", "i", "n", "g", " ", "y", "o", "u", "r", " ", "q",
            "u", "e", "s", "t", "i", "o", "n", " ", "o", "r", " ", "c", "o", "n", "t", "a",
            "c", "t", " ", "a", " ", "L", "I", "G", "O", " ", "s", "c", "i", "e", "n", "t",
            "i", "s", "t", " ", "f", "o", "r", " ", "a", "s", "s", "i", "s", "t", "a", "n",
            "c", "e", ".">> ]

\* src/app/main.py:41-42 and src/app/schemas.py:16-18  defaults of ChatRequest
DEFAULT_TOP_K == 5
DEFAULT_MAX_TOKENS == 500

\* A keyword filter that looks at the titles only.
get_mock_documents_TitleOnly(query, top_k) ==
    LET query_lower == lower(query)
        matches(doc) ==
            \E keyword \in Range(split(query_lower)) :
                Contains(keyword, lower(doc.title))
        filtered_docs == SelectSeq(MOCK_DOCUMENTS, matches)
    IN  PySliceTo(filtered_docs, top_k)

\* src/app/main.py:93-103  the body of get_mock_documents(query, top_k),
\* for the value `documents` of the module global MOCK_DOCUMENTS it reads
get_mock_documents_in(documents, query, top_k) ==
    LET query_lower == lower(query)
        matches(doc) ==
            \E keyword \in Range(split(query_lower)) :
                \/ Contains(keyword, lower(doc.content))
                \/ Contains(keyword, lower(doc.title))
        filtered_docs == SelectSeq(documents, matches)
    IN  PySliceTo(filtered_docs, top_k)

\* A keyword filter that returns its matches last document first.
get_mock_documents_LastFirst(query, top_k) ==
    LET found == get_mock_documents_in(MOCK_DOCUMENTS, query, top_k)
    IN  [i \in 1..Len(found) |-> found[Len(found) + 1 - i]]

\* src/app/main.py:93-103  get_mock_documents(query, top_k), with the global
\* as the module defines it
get_mock_documents(query, top_k) == get_mock_documents_in(MOCK_DOCUMENTS, query, top_k)

\* src/app/main.py:105-132  generate_mock_response(question, documents)
generate_mock_response(question, documents) ==
    LET question_lower == lower(question)
    IN  IF Contains(<<"l", "i", "g", "o">>, question_lower)
        THEN DEMO_ANSWER.ligo
        ELSE IF Contains(<<"g", "r", "a", "v", "i", "t", "y", " ", "s", "p", "y">>,
                         question_lower)
        THEN DEMO_ANSWER.gravity_spy
        ELSE IF \/ Contains(<<"a", "l", "o", "g">>, question_lower)
                \/ Contains(<<"g", "l", "i", "t", "c", "h">>, question_lower)
        THEN DEMO_ANSWER.alog
        ELSE DEMO_ANSWER.generic_head \o question \o DEMO_ANSWER.generic_tail

\* src/app/main.py:39-42  ChatRequest(BaseModel): question is required and a
\* str; top_k and max_tokens are Optional[int] with defaults.  The model
\* declares no length or range constraint.
ChatRequestValid(body) == body.question # Absent

ChatRequest(body) ==
    [question   |-> body.question[1],
     top_k      |-> IF body.top_k = Absent THEN Some(DEFAULT_TOP_K) ELSE body.top_k[1],
     max_tokens |-> IF body.max_tokens = Absent
                    THEN Some(DEFAULT_MAX_TOKENS) ELSE body.max_tokens[1]]

\* src/app/main.py:177-183  Citation(title=doc["title"], ...)
Citation(doc) ==
    [title   |-> doc.title,
     authors |-> Some(doc.authors),
     url     |-> Some(doc.url),
     year    |-> Some(doc.year),
     source  |-> doc.source]

\* An empty-retrieval response whose confidence is computed as for answers.
NoInfoResponse_Derived ==
    [answer       |-> DEMO_ANSWER.no_info,
     citations    |-> EmptyList,
     sources_used |-> 0,
     confidence   |-> IF 0 >= 2 THEN "high" ELSE "medium"]

\* src/app/main.py:164-169  the response for an empty retrieval result
NoInfoResponse ==
    [answer       |-> DEMO_ANSWER.no_info,
     citations    |-> EmptyList,
     sources_used |-> 0,
     confidence   |-> "low"]

\* A confidence that needs more than two sources to be high.
Confidence_AboveTwo(n) == IF n > 2 THEN "high" ELSE "medium"

\* src/app/main.py:190  "high" if len(retrieved_docs) >= 2 else "medium"
Confidence(n) == IF n >= 2 THEN "high" ELSE "medium"

\* A response that cites only the documents whose title the answer names.
AnswerResponse_CitedTitlesOnly(answer, docs) ==
    LET named(doc) == Contains(lower(doc.title), lower(answer))
        cited == SelectSeq(docs, named)
    IN  [answer       |-> answer,
         citations    |-> [i \in 1..Len(cited) |-> Citation(cited[i])],
         sources_used |-> Len(docs),
         confidence   |-> Confidence(Len(docs))]

\* src/app/main.py:174-191  the response for a non-empty retrieval result
AnswerResponse(answer, docs) ==
    [answer       |-> answer,
     citations    |-> [i \in 1..Len(docs) |-> Citation(docs[i])],
     sources_used |-> Len(docs),
     confidence   |-> Confidence(Len(docs))]

\* An except clause that answers with what the handler has so far.
ask_question_except_Partial(docs, answer) ==
    [http_status |-> 200, chat_response |-> Some(AnswerResponse(answer, docs))]

\* src/app/main.py:193-195  except Exception: raise HTTPException(500, ...).
\* The locals retrieved_docs and response are not part of the answer.
ask_question_except(docs, answer) ==
    [http_status |-> 500, chat_response |-> None]
---------------------------------------------------------------------------
(* app/retriever.py: the fixture chunks of _get_mock_documents             *)

\* src/app/retriever.py:123-154  mock_docs (a list of DocumentChunk)
mock_docs ==
    << [ id |->
             <<"m", "o", "c", "k", "-", "1">>,
         content |->
             <<"L", "I", "G", "O", " ", "(", "L", "a", "s", "e", "r", " ", "I", "n", "t", "e",
               "r", "f", "e", "r", "o", "m", "e", "t", "e", "r", " ", "G", "r", "a", "v", "i",
               "t", "a", "t", "i", "o", "n", "a", "l", "-", "W", "a", "v", "e", " ", "O", "b",
               "s", "e", "r", "v", "a", "t", "o", "r", "y", ")", " ", "i", "s", " ", "a", " ",
               "l", "a", "r", "g", "e", "-", "s", "c", "a", "l", "e", " ", "p", "h", "y", "s",
               "i", "c", "s", " ", "e", "x", "p", "e", "r", "i", "m", "e", "n", "t", " ", "d",
               "e", "s", "i", "g", "n", "e", "d", " ", "t", "o", " ", "d", "e", "t", "e", "c",
               "t", " ", "c", "o", "s", "m", "i", "c", " ", "g", "r", "a", "v", "i", "t", "a",
               "t", "i", "o", "n", "a", "l", " ", "w", "a", "v", "e", "s", ".", " ", "T", "h",
               "e", " ", "o", "b", "s", "e", "r", "v", "a", "t", "o", "r", "y", " ", "u", "s",
               "e", "s", " ", "l", "a", "s", "e", "r", " ", "i", "n", "t", "e", "r", "f", "e",
               "r", "o", "m", "e", "t", "r", "y", " ", "t", "o", " ", "m", "e", "a", "s", "u",
               "r", "e", " ", "t", "h", "e", " ", "m", "i", "n", "u", "t", "e", " ", "r", "i",
               "p", "p", "l", "e", "s", " ", "i", "n", " ", "s", "p", "a", "c", "e", "-", "t",
               "i", "m", "e", " ", "c", "a", "u", "s", "e", "d", " ", "b", "y", " ", "p", "a",
               "s", "s", "i", "n", "g", " ", "g", "r", "a", "v", "i", "t", "a", "t", "i", "o",
               "n", "a", "l", " ", "w", "a", "v", "e", "s", " ", "f", "r", "o", "m", " ", "c",
               "a", "t", "a", "c", "l", "y", "s", "m", "i", "c", " ", "c", "o", "s", "m", "i",
               "c", " ", "e", "v", "e", "n", "t", "s", " ", "s", "u", "c", "h", " ", "a", "s",
               " ", "m", "e", "r", "g", "i", "n", "g", " ", "n", "e", "u", "t", "r", "o", "n",
               " ", "s", "t", "a", "r", "s", " ", "o", "r", " ", "b", "l", "a", "c", "k", " ",
               "h", "o", "l", "e", "s", ".">>,
         title |->
             <<"I", "n", "t", "r", "o", "d", "u", "c", "t", "i", "o", "n", " ", "t", "o", " ",
               "L", "I", "G", "O">>,
         authors |->
             Some(<<"L", "I", "G", "O", " ", "S", "c", "i", "e", "n", "t", "i", "f", "i", "c", " ",
                    "C", "o", "l", "l", "a", "b", "o", "r", "a", "t", "i", "o", "n">>),
         url |->
             Some(<<"h", "t", "t", "p", "s", ":", "/", "/", "w", "w", "w", ".", "l", "i", "g", "o",
                    ".", "o", "r", "g", "/", "s", "c", "i", "e", "n", "c", "e", ".", "p", "h", "p">>),
         year |-> Some(2023),
         source |->
             <<"L", "I", "G", "O", " ", "D", "o", "c", "u", "m", "e", "n", "t", "a", "t", "i",
               "o", "n">>,
         chunk_index |-> 1,
         metadata |-> None ],
       [ id |->
             <<"m", "o", "c", "k", "-", "2">>,
         content |->
             <<"G", "r", "a", "v", "i", "t", "y", " ", "S", "p", "y", " ", "i", "s", " ", "a",
               " ", "c", "i", "t", "i", "z", "e", "n", " ", "s", "c", "i", "e", "n", "c", "e",
               " ", "p", "r", "o", "j", "e", "c", "t", " ", "t", "h", "a", "t", " ", "h", "e",
               "l", "p", "s", " ", "c", "l", "a", "s", "s", "i", "f", "y", " ", "g", "l", "i",
               "t", "c", "h", "e", "s", " ", "i", "n", " ", "L", "I", "G", "O", " ", "d", "a",
               "t", "a", ".", " ", "V", "o", "l", "u", "n", "t", "e", "e", "r", "s", " ", "e",
               "x", "a", "m", "i", "n", "e", " ", "s", "p", "e", "c", "t", "r", "o", "g", "r",
               "a", "m", "s", " ", "o", "f", " ", "g", "r", "a", "v", "i", "t", "a", "t", "i",
               "o", "n", "a", "l", " ", "w", "a", "v", "e", " ", "d", "e", "t", "e", "c", "t",
               "o", "r", " ", "n", "o", "i", "s", "e", " ", "t", "o", " ", "i", "d", "e", "n",
               "t", "i", "f", "y", " ", "a", "n", "d", " ", "c", "a", "t", "e", "g", "o", "r",
               "i", "z", "e", " ", "d", "i", "f", "f", "e", "r", "e", "n", "t", " ", "t", "y",
               "p", "e", "s", " ", "o", "f", " ", "i", "n", "s", "t", "r", "u", "m", "e", "n",
               "t", "a", "l", " ", "a", "r", "t", "i", "f", "a", "c", "t", "s", " ", "t", "h",
               "a", "t", " ", "c", "o", "u", "l", "d", " ", "i", "n", "t", "e", "r", "f", "e",
               "r", "e", " ", "w", "i", "t", "h", " ", "g", "r", "a", "v", "i", "t", "a", "t",
               "i", "o", "n", "a", "l", " ", "w", "a", "v", "e", " ", "d", "e", "t", "e", "c",
               "t", "i", "o", "n", ".">>,
         title |->
             <<"G", "r", "a", "v", "i", "t", "y", " ", "S", "p", "y", " ", "C", "i", "t", "i",
               "z", "e", "n", " ", "S", "c", "i", "e", "n", "c", "e">>,
         authors |->
             Some(<<"G", "r", "a", "v", "i", "t", "y", " ", "S", "p", "y", " ", "T", "e", "a", "m">>),
         url |->
             Some(<<"h", "t", "t", "p", "s", ":", "/", "/", "w", "w", "w", ".", "z", "o", "o", "n",
                    "i", "v", "e", "r", "s", "e", ".", "o", "r", "g", "/", "p", "r", "o", "j", "e",
                    "c", "t", "s", "/", "z", "o", "o", "n", "i", "v", "e", "r", "s", "e", "/", "g",
                    "r", "a", "v", "i", "t", "y", "-", "s", "p", "y">>),
         year |-> Some(2024),
         source |->
             <<"Z", "o", "o", "n", "i", "v", "e", "r", "s", "e">>,
         chunk_index |-> 1,
         metadata |-> None ],
       [ id |->
             <<"m", "o", "c", "k", "-", "3">>,
         content |->
             <<"a", "L", "O", "G", "s", " ", "(", "L", "I", "G", "O", " ", "O", "n", "l", "i",
               "n", "e", " ", "G", "l", "i", "t", "c", "h", " ", "D", "a", "t", "a", "b", "a",
               "s", "e", ")", " ", "c", "o", "n", "t", "a", "i", "n", " ", "d", "e", "t", "a",
               "i", "l", "e", "d", " ", "i", "n", "f", "o", "r", "m", "a", "t", "i", "o", "n",
               " ", "a", "b", "o", "u", "t", " ", "i", "n", "s", "t", "r", "u", "m", "e", "n",
               "t", "a", "l", " ", "g", "l", "i", "t", "c", "h", "e", "s", " ", "d", "e", "t",
               "e", "c", "t", "e", "d", " ", "i", "n", " ", "L", "I", "G", "O", " ", "d", "a",
               "t", "a", ".", " ", "T", "h", "e", "s", "e", " ", "l", "o", "g", "s", " ", "h",
               "e", "l", "p", " ", "s", "c", "i", "e", "n", "t", "i", "s", "t", "s", " ", "u",
               "n", "d", "e", "r", "s", "t", "a", "n", "d", " ", "t", "h", "e", " ", "s", "o",
               "u", "r", "c", "e", "s", " ", "o", "f", " ", "n", "o", "i", "s", "e", " ", "a",
               "n", "d", " ", "i", "m", "p", "r", "o", "v", "e", " ", "d", "e", "t", "e", "c",
               "t", "o", "r", " ", "s", "e", "n", "s", "i", "t", "i", "v", "i", "t", "y", " ",
               "b", "y", " ", "i", "d", "e", "n", "t", "i", "f", "y", "i", "n", "g", " ", "a",
               "n", "d", " ", "m", "i", "t", "i", "g", "a", "t", "i", "n", "g", " ", "s", "y",
               "s", "t", "e", "m", "a", "t", "i", "c", " ", "i", "s", "s", "u", "e", "s", ".">>,
         title |->
             <<"U", "n", "d", "e", "r", "s", "t", "a", "n", "d", "i", "n", "g", " ", "a", "L",
               "O", "G", "s">>,
         authors |->
             Some(<<"L", "I", "G", "O", " ", "D", "e", "t", "e", "c", "t", "o", "r", " ", "C", "h",
                    "a", "r", "a", "c", "t", "e", "r", "i", "z", "a", "t", "i", "o", "n", " ", "G",
                    "r", "o", "u", "p">>),
         url |->
             Some(<<"h", "t", "t", "p", "s", ":", "/", "/", "a", "l", "o", "g", ".", "l", "i", "g",
                    "o", "-", "w", "a", ".", "c", "a", "l", "t", "e", "c", "h", ".", "e", "d", "u",
                    "/">>),
         year |-> Some(2023),
         source |->
             <<"a", "L", "O", "G", " ", "D", "a", "t", "a", "b", "a", "s", "e">>,
         chunk_index |-> 1,
         metadata |-> None ] >>

\* The empty dict {}.
EmptyDict == << >>

\* A keyword filter that wants every token of the query in a chunk.
_get_mock_documents_EveryToken(query, top_k) ==
    LET query_lower == lower(query)
        matches(doc) ==
            \A keyword \in Range(split(query_lower)) :
                \/ Contains(keyword, lower(doc.content))
                \/ Contains(keyword, lower(doc.title))
    IN  PySliceTo(SelectSeq(mock_docs, matches), top_k)

\* src/app/retriever.py:156-165  _get_mock_documents: the keyword filter
\* over mock_docs, truncated to top_k
_get_mock_documents(query, top_k) ==
    LET query_lower == lower(query)
        matches(doc) ==
            \E keyword \in Range(split(query_lower)) :
                \/ Contains(keyword, lower(doc.content))
                \/ Contains(keyword, lower(doc.title))
        filtered_docs == SelectSeq(mock_docs, matches)
    IN  PySliceTo(filtered_docs, top_k)

\* A value in a record the search backend returns, with its Python type.
StrValue(s) == [t |-> "str", v |-> s]
IntValue(n) == [t |-> "int", v |-> <<n>>]
NullValue == [t |-> "NoneType", v |-> << >>]
DictValue == [t |-> "dict", v |-> << >>]

\* dict.get(key, default) on a search result
Get(result, key, default) ==
    IF result[key] = Absent THEN default ELSE result[key][1]

\* src/app/retriever.py:76-86  the keyword arguments handed to DocumentChunk
ChunkArguments(result) ==
    [id          |-> Get(result, "id", StrValue(EmptyStr)),
     content     |-> Get(result, "content", StrValue(EmptyStr)),
     title       |-> Get(result, "title", StrValue(EmptyStr)),
     authors     |-> Get(result, "authors", NullValue),
     url         |-> Get(result, "url", NullValue),
     year        |-> Get(result, "year", NullValue),
     source      |-> Get(result, "source", StrValue(<<"u", "n", "k", "n", "o", "w", "n">>)),
     chunk_index |-> Get(result, "chunk_index", IntValue(0)),
     metadata    |-> Get(result, "metadata", DictValue)]

\* src/app/schemas.py:49-59  DocumentChunk: the field types.  Constructing
\* one raises a validation error when an argument is not of its field's type.
DocumentChunkValid(args) ==
    /\ args.id.t = "str"
    /\ args.content.t = "str"
    /\ args.title.t = "str"
    /\ args.authors.t \in {"str", "NoneType"}
    /\ args.url.t \in {"str", "NoneType"}
    /\ args.year.t \in {"int", "NoneType"}
    /\ args.source.t = "str"
    /\ args.chunk_index.t = "int"
    /\ args.metadata.t \in {"dict", "NoneType"}

OptionalOf(value) ==
    IF value.t = "NoneType" THEN None
    ELSE IF value.t = "int" THEN Some(value.v[1])
    ELSE Some(value.v)

\* src/app/schemas.py:49-59  DocumentChunk(**args), for valid arguments
DocumentChunk(args) ==
    [id          |-> args.id.v,
     content     |-> args.content.v,
     title       |-> args.title.v,
     authors     |-> OptionalOf(args.authors),
     url         |-> OptionalOf(args.url),
     year        |-> OptionalOf(args.year),
     source      |-> args.source.v,
     chunk_index |-> args.chunk_index.v[1],
     metadata    |-> IF args.metadata.t = "NoneType" THEN None ELSE Some(EmptyDict)]

\* src/app/retriever.py:168-174  MockSearchClient.search: always []
MockSearchClient_search(search_text, top) == EmptyList

\* src/app/retriever.py:32-45  _initialize_client: the Azure client when its
\* construction succeeds, the MockSearchClient when it raises.
DocumentRetriever_initialize_client(constructs) == IF constructs THEN "azure" ELSE "mock"

\* A retrieve_documents whose except branch returns nothing.
retrieve_documents_NoFallback(self_search_client, query, top_k, outcome) ==
    LET search_results ==
            IF self_search_client = "mock" THEN EmptyList ELSE outcome.results
        search_raises == self_search_client = "azure" /\ outcome.kind = "raise"
        conversion_raises ==
            \E i \in 1..Len(search_results) :
                ~DocumentChunkValid(ChunkArguments(search_results[i]))
    IN  IF search_raises \/ conversion_raises
        THEN [path |-> "except", documents |-> EmptyList]
        ELSE [path |-> "try",
              documents |-> [i \in 1..Len(search_results) |->
                                DocumentChunk(ChunkArguments(search_results[i]))]]

\* src/app/retriever.py:64-95  retrieve_documents.  `outcome` is what the
\* call self.search_client.search(...) and the iteration over its result do
\* when the client is the Azure client: raise, or yield search results.
\* The filters argument is only handed to the backend.
retrieve_documents(self_search_client, query, top_k, outcome) ==
    LET search_results ==
            IF self_search_client = "mock"
            THEN MockSearchClient_search(query, top_k)
            ELSE outcome.results
        search_raises == self_search_client = "azure" /\ outcome.kind = "raise"
        conversion_raises ==
            \E i \in 1..Len(search_results) :
                ~DocumentChunkValid(ChunkArguments(search_results[i]))
        documents ==
            [i \in 1..Len(search_results) |->
                DocumentChunk(ChunkArguments(search_results[i]))]
    IN  IF search_raises \/ conversion_raises
        THEN [path |-> "except", documents |-> _get_mock_documents(query, top_k)]
        ELSE [path |-> "try", documents |-> documents]

---------------------------------------------------------------------------
(* app/generator.py: the canned answers of _get_mock_response              *)

\* src/app/generator.py:108-113  mock_responses, in the dict's insertion order
mock_responses ==
    << [ keyword |->
             <<"l", "i", "g", "o">>,
         response |->
             <<"L", "I", "G", "O", " ", "(", "L", "a", "s", "e", "r", " ", "I", "n", "t", "e",
               "r", "f", "e", "r", "o", "m", "e", "t", "e", "r", " ", "G", "r", "a", "v", "i",
               "t", "a", "t", "i", "o", "n", "a", "l", "-", "W", "a", "v", "e", " ", "O", "b",
               "s", "e", "r", "v", "a", "t", "o", "r", "y", ")", " ", "i", "s", " ", "a", " ",
               "l", "a", "r", "g", "e", "-", "s", "c", "a", "l", "e", " ", "p", "h", "y", "s",
               "i", "c", "s", " ", "e", "x", "p", "e", "r", "i", "m", "e", "n", "t", " ", "d",
               "e", "s", "i", "g", "n", "e", "d", " ", "t", "o", " ", "d", "e", "t", "e", "c",
               "t", " ", "c", "o", "s", "m", "i", "c", " ", "g", "r", "a", "v", "i", "t", "a",
               "t", "i", "o", "n", "a", "l", " ", "w", "a", "v", "e", "s", ".", " ", "T", "h",
               "e", " ", "o", "b", "s", "e", "r", "v", "a", "t", "o", "r", "y", " ", "u", "s",
               "e", "s", " ", "l", "a", "s", "e", "r", " ", "i", "n", "t", "e", "r", "f", "e",
               "r", "o", "m", "e", "t", "r", "y", " ", "t", "o", " ", "m", "e", "a", "s", "u",
               "r", "e", " ", "m", "i", "n", "u", "t", "e", " ", "r", "i", "p", "p", "l", "e",
               "s", " ", "i", "n", " ", "s", "p", "a", "c", "e", "-", "t", "i", "m", "e", " ",
               "c", "a", "u", "s", "e", "d", " ", "b", "y", " ", "p", "a", "s", "s", "i", "n",
               "g", " ", "g", "r", "a", "v", "i", "t", "a", "t", "i", "o", "n", "a", "l", " ",
               "w", "a", "v", "e", "s", " ", "f", "r", "o", "m", " ", "c", "a", "t", "a", "c",
               "l", "y", "s", "m", "i", "c", " ", "c", "o", "s", "m", "i", "c", " ", "e", "v",
               "e", "n", "t", "s", " ", "s", "u", "c", "h", " ", "a", "s", " ", "m", "e", "r",
               "g", "i", "n", "g", " ", "n", "e", "u", "t", "r", "o", "n", " ", "s", "t", "a",
               "r", "s", " ", "o", "r", " ", "b", "l", "a", "c", "k", " ", "h", "o", "l", "e",
               "s", ".">> ],
       [ keyword |->
             <<"g", "r", "a", "v", "i", "t", "y", " ", "s", "p", "y">>,
         response |->
             <<"G", "r", "a", "v", "i", "t", "y", " ", "S", "p", "y", " ", "i", "s", " ", "a",
               " ", "c", "i", "t", "i", "z", "e", "n", " ", "s", "c", "i", "e", "n", "c", "e",
               " ", "p", "r", "o", "j", "e", "c", "t", " ", "t", "h", "a", "t", " ", "h", "e",
               "l", "p", "s", " ", "c", "l", "a", "s", "s", "i", "f", "y", " ", "g", "l", "i",
               "t", "c", "h", "e", "s", " ", "i", "n", " ", "L", "I", "G", "O", " ", "d", "a",
               "t", "a", ".", " ", "V", "o", "l", "u", "n", "t", "e", "e", "r", "s", " ", "e",
               "x", "a", "m", "i", "n", "e", " ", "s", "p", "e", "c", "t", "r", "o", "g", "r",
               "a", "m", "s", " ", "o", "f", " ", "g", "r", "a", "v", "i", "t", "a", "t", "i",
               "o", "n", "a", "l", " ", "w", "a", "v", "e", " ", "d", "e", "t", "e", "c", "t",
               "o", "r", " ", "n", "o", "i", "s", "e", " ", "t", "o", " ", "i", "d", "e", "n",
               "t", "i", "f", "y", " ", "a", "n", "d", " ", "c", "a", "t", "e", "g", "o", "r",
               "i", "z", "e", " ", "d", "i", "f", "f", "e", "r", "e", "n", "t", " ", "t", "y",
               "p", "e", "s", " ", "o", "f", " ", "i", "n", "s", "t", "r", "u", "m", "e", "n",
               "t", "a", "l", " ", "a", "r", "t", "i", "f", "a", "c", "t", "s", " ", "t", "h",
               "a", "t", " ", "c", "o", "u", "l", "d", " ", "i", "n", "t", "e", "r", "f", "e",
               "r", "e", " ", "w", "i", "t", "h", " ", "g", "r", "a", "v", "i", "t", "a", "t",
               "i", "o", "n", "a", "l", " ", "w", "a", "v", "e", " ", "d", "e", "t", "e", "c",
               "t", "i", "o", "n", ".">> ],
       [ keyword |->
             <<"a", "l", "o", "g">>,
         response |->
             <<"a", "L", "O", "G", "s", " ", "(", "L", "I", "G", "O", " ", "O", "n", "l", "i",
               "n", "e", " ", "G", "l", "i", "t", "c", "h", " ", "D", "a", "t", "a", "b", "a",
               "s", "e", ")", " ", "c", "o", "n", "t", "a", "i", "n", " ", "d", "e", "t", "a",
               "i", "l", "e", "d", " ", "i", "n", "f", "o", "r", "m", "a", "t", "i", "o", "n",
               " ", "a", "b", "o", "u", "t", " ", "i", "n", "s", "t", "r", "u", "m", "e", "n",
               "t", "a", "l", " ", "g", "l", "i", "t", "c", "h", "e", "s", " ", "d", "e", "t",
               "e", "c", "t", "e", "d", " ", "i", "n", " ", "L", "I", "G", "O", " ", "d", "a",
               "t", "a", ".", " ", "T", "h", "e", "s", "e", " ", "l", "o", "g", "s", " ", "h",
               "e", "l", "p", " ", "s", "c", "i", "e", "n", "t", "i", "s", "t", "s", " ", "u",
               "n", "d", "e", "r", "s", "t", "a", "n", "d", " ", "t", "h", "e", " ", "s", "o",
               "u", "r", "c", "e", "s", " ", "o", "f", " ", "n", "o", "i", "s", "e", " ", "a",
               "n", "d", " ", "i", "m", "p", "r", "o", "v", "e", " ", "d", "e", "t", "e", "c",
               "t", "o", "r", " ", "s", "e", "n", "s", "i", "t", "i", "v", "i", "t", "y", " ",
               "b", "y", " ", "i", "d", "e", "n", "t", "i", "f", "y", "i", "n", "g", " ", "a",
               "n", "d", " ", "m", "i", "t", "i", "g", "a", "t", "i", "n", "g", " ", "s", "y",
               "s", "t", "e", "m", "a", "t", "i", "c", " ", "i", "s", "s", "u", "e", "s", ".">> ],
       [ keyword |->
             <<"g", "l", "i", "t", "c", "h">>,
         response |->
             <<"G", "l", "i", "t", "c", "h", "e", "s", " ", "i", "n", " ", "L", "I", "G", "O",
               " ", "d", "a", "t", "a", " ", "a", "r", "e", " ", "i", "n", "s", "t", "r", "u",
               "m", "e", "n", "t", "a", "l", " ", "a", "r", "t", "i", "f", "a", "c", "t", "s",
               " ", "t", "h", "a", "t", " ", "c", "a", "n", " ", "i", "n", "t", "e", "r", "f",
               "e", "r", "e", " ", "w", "i", "t", "h", " ", "g", "r", "a", "v", "i", "t", "a",
               "t", "i", "o", "n", "a", "l", " ", "w", "a", "v", "e", " ", "d", "e", "t", "e",
               "c", "t", "i", "o", "n", ".", " ", "T", "h", "e", "y", " ", "c", "a", "n", " ",
               "b", "e", " ", "c", "a", "u", "s", "e", "d", " ", "b", "y", " ", "v", "a", "r",
               "i", "o", "u", "s", " ", "s", "o", "u", "r", "c", "e", "s", " ", "i", "n", "c",
               "l", "u", "d", "i", "n", "g", " ", "e", "n", "v", "i", "r", "o", "n", "m", "e",
               "n", "t", "a", "l", " ", "f", "a", "c", "t", "o", "r", "s", ",", " ", "d", "e",
               "t", "e", "c", "t", "o", "r", " ", "h", "a", "r", "d", "w", "a", "r", "e", " ",
               "i", "s", "s", "u", "e", "s", ",", " ", "o", "r", " ", "e", "x", "t", "e", "r",
               "n", "a", "l", " ", "d", "i", "s", "t", "u", "r", "b", "a", "n", "c", "e", "s",
               ".", " ", "G", "r", "a", "v", "i", "t", "y", " ", "S", "p", "y", " ", "h", "e",
               "l", "p", "s", " ", "c", "l", "a", "s", "s", "i", "f", "y", " ", "t", "h", "e",
               "s", "e", " ", "g", "l", "i", "t", "c", "h", "e", "s", " ", "t", "o", " ", "i",
               "m", "p", "r", "o", "v", "e", " ", "d", "a", "t", "a", " ", "q", "u", "a", "l",
               "i", "t", "y", ".">> ] >>

\* src/app/generator.py:106-120  the literal text of _get_mock_response
\* marker (generator.py:106): "Question:"
\* placeholder (generator.py:106): "your question"
\* prefix (generator.py:118): "Based on the LIGO/Gravity Spy knowledge base, "
\* generic_head (generator.py:120, before {question}): "Thank you for your
\* question about '"
\* generic_tail (generator.py:120, after {question}): "'. Based on the
\* available LIGO and Gravity Spy documentation, I can provide information
\* about gravitational wave detection, detector technology, and citizen science
\* opportunities. Could you please be more specific about what aspect you'd
\* like to learn about?"
MOCK_RESPONSE ==
    [ marker |->
          <<"Q", "u", "e", "s", "t", "i", "o", "n", ":">>,
      placeholder |->
          <<"y", "o", "u", "r", " ", "q", "u", "e", "s", "t", "i", "o", "n">>,
      prefix |->
          <<"B", "a", "s", "e", "d", " ", "o", "n", " ", "t", "h", "e", " ", "L", "I", "G",
            "O", "/", "G", "r", "a", "v", "i", "t", "y", " ", "S", "p", "y", " ", "k", "n",
            "o", "w", "l", "e", "d", "g", "e", " ", "b", "a", "s", "e", ",", " ">>,
      generic_head |->
          <<"T", "h", "a", "n", "k", " ", "y", "o", "u", " ", "f", "o", "r", " ", "y", "o",
            "u", "r", " ", "q", "u", "e", "s", "t", "i", "o", "n", " ", "a", "b", "o", "u",
            "t", " ", "'">>,
      generic_tail |->
          <<"'", ".", " ", "B", "a", "s", "e", "d", " ", "o", "n", " ", "t", "h", "e", " ",
            "a", "v", "a", "i", "l", "a", "b", "l", "e", " ", "L", "I", "G", "O", " ", "a",
            "n", "d", " ", "G", "r", "a", "v", "i", "t", "y", " ", "S", "p", "y", " ", "d",
            "o", "c", "u", "m", "e", "n", "t", "a", "t", "i", "o", "n", ",", " ", "I", " ",
            "c", "a", "n", " ", "p", "r", "o", "v", "i", "d", "e", " ", "i", "n", "f", "o",
            "r", "m", "a", "t", "i", "o", "n", " ", "a", "b", "o", "u", "t", " ", "g", "r",
            "a", "v", "i", "t", "a", "t", "i", "o", "n", "a", "l", " ", "w", "a", "v", "e",
            " ", "d", "e", "t", "e", "c", "t", "i", "o", "n", ",", " ", "d", "e", "t", "e",
            "c", "t", "o", "r", " ", "t", "e", "c", "h", "n", "o", "l", "o", "g", "y", ",",
            " ", "a", "n", "d", " ", "c", "i", "t", "i", "z", "e", "n", " ", "s", "c", "i",
            "e", "n", "c", "e", " ", "o", "p", "p", "o", "r", "t", "u", "n", "i", "t", "i",
            "e", "s", ".", " ", "C", "o", "u", "l", "d", " ", "y", "o", "u", " ", "p", "l",
            "e", "a", "s", "e", " ", "b", "e", " ", "m", "o", "r", "e", " ", "s", "p", "e",
            "c", "i", "f", "i", "c", " ", "a", "b", "o", "u", "t", " ", "w", "h", "a", "t",
            " ", "a", "s", "p", "e", "c", "t", " ", "y", "o", "u", "'", "d", " ", "l", "i",
            "k", "e", " ", "t", "o", " ", "l", "e", "a", "r", "n", " ", "a", "b", "o", "u",
            "t", "?">> ]
\* A fallback in which the last key of the table that matches decides.
_get_mock_response_LastKeyWins(user_prompt) ==
    LET question ==
            IF Contains(MOCK_RESPONSE.marker, user_prompt)
            THEN strip(SplitOn(SplitOn(user_prompt, MOCK_RESPONSE.marker)[2], <<"\n">>)[1])
            ELSE MOCK_RESPONSE.placeholder
        hits == {i \in 1..Len(mock_responses) :
                    Contains(mock_responses[i].keyword, lower(question))}
    IN  IF hits # {}
        THEN MOCK_RESPONSE.prefix
                \o mock_responses[CHOOSE i \in hits : \A k \in hits : i >= k].response
        ELSE MOCK_RESPONSE.generic_head \o question \o MOCK_RESPONSE.generic_tail

\* src/app/generator.py:103-120  _get_mock_response(user_prompt)
_get_mock_response(user_prompt) ==
    LET question ==
            IF Contains(MOCK_RESPONSE.marker, user_prompt)
            THEN strip(SplitOn(SplitOn(user_prompt, MOCK_RESPONSE.marker)[2], <<"\n">>)[1])
            ELSE MOCK_RESPONSE.placeholder
        question_lower == lower(question)
        hits == {i \in 1..Len(mock_responses) :
                    Contains(mock_responses[i].keyword, question_lower)}
    IN  IF hits # {}
        THEN MOCK_RESPONSE.prefix
                \o mock_responses[CHOOSE i \in hits : \A k \in hits : i <= k].response
        ELSE MOCK_RESPONSE.generic_head \o question \o MOCK_RESPONSE.generic_tail

\* src/app/generator.py:28-39  _initialize_client: the Azure client when its
\* construction succeeds, None when it raises.
ResponseGenerator_initialize_client(constructs) == IF constructs THEN "azure" ELSE "none"

\* A generate_response whose fallback text is cut to max_tokens characters.
generate_response_CutToMaxTokens(self_client, user_prompt, system_prompt, max_tokens, outcome) ==
    IF self_client = "none" \/ outcome.kind # "completion"
          \/ outcome.choices = EmptyList \/ outcome.choices[1] = None
    THEN [path |-> IF self_client = "none" THEN "no client" ELSE "except Exception",
          text |-> SubSeq(_get_mock_response(user_prompt), 1,
                          Min(max_tokens, Len(_get_mock_response(user_prompt))))]
    ELSE [path |-> "backend", text |-> outcome.choices[1][1]]

\* src/app/generator.py:58-84  generate_response.  `outcome` is what the call
\* self.client.chat.completions.create(...) does: raise an AzureError, raise
\* another exception, or return a completion whose choices each carry a
\* message content (None or a str).
generate_response(self_client, user_prompt, system_prompt, max_tokens, outcome) ==
    IF self_client = "none"
    THEN [path |-> "no client", text |-> _get_mock_response(user_prompt)]
    ELSE IF outcome.kind = "AzureError"
    THEN [path |-> "except AzureError", text |-> _get_mock_response(user_prompt)]
    ELSE IF outcome.kind = "Exception"
    THEN [path |-> "except Exception", text |-> _get_mock_response(user_prompt)]
    ELSE IF outcome.choices = EmptyList
    THEN \* response.choices[0] raises IndexError
         [path |-> "except Exception", text |-> _get_mock_response(user_prompt)]
    ELSE IF outcome.choices[1] = None
    THEN \* len(None) raises TypeError
         [path |-> "except Exception", text |-> _get_mock_response(user_prompt)]
    ELSE [path |-> "backend", text |-> outcome.choices[1][1]]


\* A health check that takes any completion for a healthy answer.
health_check_AnyCompletion(self_client, outcome) ==
    self_client # "none" /\ outcome.kind = "completion"

\* src/app/generator.py:86-101  health_check().  `outcome` is what the probe
\* self.client.chat.completions.create(...) does.
health_check(self_client, outcome) ==
    IF self_client = "none"
    THEN FALSE
    ELSE IF outcome.kind # "completion"
    THEN FALSE
    ELSE IF outcome.choices = EmptyList
    THEN \* response.choices[0] raises IndexError
         FALSE
    ELSE IF outcome.choices[1] = None
    THEN \* len(None) raises TypeError
         FALSE
    ELSE Len(outcome.choices[1][1]) > 0
---------------------------------------------------------------------------
(* app/prompts.py: the literal text of the prompt templates                *)

\* src/app/prompts.py:18  RAGPromptManager.DATA_DELIMITER (a class attribute)
\* "~~~"
DATA_DELIMITER ==
    <<"~", "~", "~">>

\* src/app/prompts.py:35-44  the literal text of user_prompt
\* head (prompts.py:35-36, up to {question}): "\nQuestion: "
\* middle (prompts.py:36-39, from {question} to the first {DATA_DELIMITER}):
\* "\n\nContext from LIGO/Gravity Spy knowledge base:\n"
\* tail (prompts.py:41-44, after the second {DATA_DELIMITER}): "\n\nPlease
\* answer the question using ONLY the provided context. If the context doesn't
\* contain enough information to answer the question, please say so clearly.\n"
USER_PROMPT ==
    [ head |->
          <<"\n", "Q", "u", "e", "s", "t", "i", "o", "n", ":", " ">>,
      middle |->
          <<"\n", "\n", "C", "o", "n", "t", "e", "x", "t", " ", "f", "r", "o", "m", " ", "L",
            "I", "G", "O", "/", "G", "r", "a", "v", "i", "t", "y", " ", "S", "p", "y", " ",
            "k", "n", "o", "w", "l", "e", "d", "g", "e", " ", "b", "a", "s", "e", ":", "\n">>,
      tail |->
          <<"\n", "\n", "P", "l", "e", "a", "s", "e", " ", "a", "n", "s", "w", "e", "r", " ",
            "t", "h", "e", " ", "q", "u", "e", "s", "t", "i", "o", "n", " ", "u", "s", "i",
            "n", "g", " ", "O", "N", "L", "Y", " ", "t", "h", "e", " ", "p", "r", "o", "v",
            "i", "d", "e", "d", " ", "c", "o", "n", "t", "e", "x", "t", ".", " ", "I", "f",
            " ", "t", "h", "e", " ", "c", "o", "n", "t", "e", "x", "t", " ", "d", "o", "e",
            "s", "n", "'", "t", " ", "c", "o", "n", "t", "a", "i", "n", " ", "e", "n", "o",
            "u", "g", "h", " ", "i", "n", "f", "o", "r", "m", "a", "t", "i", "o", "n", " ",
            "t", "o", " ", "a", "n", "s", "w", "e", "r", " ", "t", "h", "e", " ", "q", "u",
            "e", "s", "t", "i", "o", "n", ",", " ", "p", "l", "e", "a", "s", "e", " ", "s",
            "a", "y", " ", "s", "o", " ", "c", "l", "e", "a", "r", "l", "y", ".", "\n">> ]

\* src/app/prompts.py:47-73  the literal text of system_prompt
\* head (prompts.py:47-57, up to {DATA_DELIMITER}): "\nYou are a LIGO scientist
\* tasked with responding to citizen scientists with factual,\naccessible
\* responses. These might be any questions about LIGO technology,
\* scientific\nresults, or questions about citizen scientist tasks related to
\* Zooniverse or Gravity Spy.\nYour goal is to help citizen scientists with
\* factual responses to their questions that\nwill enable them to interpret
\* Gravity Spy Glitches and their origins. Use clear, simple\nlanguage and
\* avoid technical jargon to ensure accessibility. Translate acronyms to
\* full\nwords based upon LIGO Abbreviations and Acronyms whenever
\* possible.\n\nIMPORTANT INSTRUCTIONS:\n1. Answer ONLY using the provided
\* context between the "
\* tail (prompts.py:57-73, after {DATA_DELIMITER}): " markers\n2. Always cite
\* your sources using the format [text](url) for URLs\n3. If you reference a
\* document, include the title and authors\n4. Use phrases like "according to"
\* or "as mentioned in" when citing\n5. If the context doesn't contain enough
\* information, clearly state this\n6. Expand acronyms when possible (e.g.,
\* LIGO = Laser Interferometer Gravitational-Wave Observatory)\n7. Maintain a
\* neutral, informative tone\n8. Use "some" rather than "all" when referring to
\* data to avoid extremes\n\nWhen generating summaries, format all URLs without
\* hashtags following this
\* format:\n[template_link_text](template_link_url).\n\nStructure responses
\* logically, highlighting common or recent issues, and\nmaintain a neutral,
\* informative tone. Phrase interpretations with rhetoric like\n"an" (as
\* opposed to "the") and "some" as opposed to "all" when referring to
\* the\ndata. This will avoid extremes when there is a lack of clarity.\n"
SYSTEM_PROMPT ==
    [ head |->
          <<"\n", "Y", "o", "u", " ", "a", "r", "e", " ", "a", " ", "L", "I", "G", "O", " ",
            "s", "c", "i", "e", "n", "t", "i", "s", "t", " ", "t", "a", "s", "k", "e", "d",
            " ", "w", "i", "t", "h", " ", "r", "e", "s", "p", "o", "n", "d", "i", "n", "g",
            " ", "t", "o", " ", "c", "i", "t", "i", "z", "e", "n", " ", "s", "c", "i", "e",
            "n", "t", "i", "s", "t", "s", " ", "w", "i", "t", "h", " ", "f", "a", "c", "t",
            "u", "a", "l", ",", "\n", "a", "c", "c", "e", "s", "s", "i", "b", "l", "e", " ",
            "r", "e", "s", "p", "o", "n", "s", "e", "s", ".", " ", "T", "h", "e", "s", "e",
            " ", "m", "i", "g", "h", "t", " ", "b", "e", " ", "a", "n", "y", " ", "q", "u",
            "e", "s", "t", "i", "o", "n", "s", " ", "a", "b", "o", "u", "t", " ", "L", "I",
            "G", "O", " ", "t", "e", "c", "h", "n", "o", "l", "o", "g", "y", ",", " ", "s",
            "c", "i", "e", "n", "t", "i", "f", "i", "c", "\n", "r", "e", "s", "u", "l", "t",
            "s", ",", " ", "o", "r", " ", "q", "u", "e", "s", "t", "i", "o", "n", "s", " ",
            "a", "b", "o", "u", "t", " ", "c", "i", "t", "i", "z", "e", "n", " ", "s", "c",
            "i", "e", "n", "t", "i", "s", "t", " ", "t", "a", "s", "k", "s", " ", "r", "e",
            "l", "a", "t", "e", "d", " ", "t", "o", " ", "Z", "o", "o", "n", "i", "v", "e",
            "r", "s", "e", " ", "o", "r", " ", "G", "r", "a", "v", "i", "t", "y", " ", "S",
            "p", "y", ".", "\n", "Y", "o", "u", "r", " ", "g", "o", "a", "l", " ", "i", "s",
            " ", "t", "o", " ", "h", "e", "l", "p", " ", "c", "i", "t", "i", "z", "e", "n",
            " ", "s", "c", "i", "e", "n", "t", "i", "s", "t", "s", " ", "w", "i", "t", "h",
            " ", "f", "a", "c", "t", "u", "a", "l", " ", "r", "e", "s", "p", "o", "n", "s",
            "e", "s", " ", "t", "o", " ", "t", "h", "e", "i", "r", " ", "q", "u", "e", "s",
            "t", "i", "o", "n", "s", " ", "t", "h", "a", "t", "\n", "w", "i", "l", "l", " ",
            "e", "n", "a", "b", "l", "e", " ", "t", "h", "e", "m", " ", "t", "o", " ", "i",
            "n", "t", "e", "r", "p", "r", "e", "t", " ", "G", "r", "a", "v", "i", "t", "y",
            " ", "S", "p", "y", " ", "G", "l", "i", "t", "c", "h", "e", "s", " ", "a", "n",
            "d", " ", "t", "h", "e", "i", "r", " ", "o", "r", "i", "g", "i", "n", "s", ".",
            " ", "U", "s", "e", " ", "c", "l", "e", "a", "r", ",", " ", "s", "i", "m", "p",
            "l", "e", "\n", "l", "a", "n", "g", "u", "a", "g", "e", " ", "a", "n", "d", " ",
            "a", "v", "o", "i", "d", " ", "t", "e", "c", "h", "n", "i", "c", "a", "l", " ",
            "j", "a", "r", "g", "o", "n", " ", "t", "o", " ", "e", "n", "s", "u", "r", "e",
            " ", "a", "c", "c", "e", "s", "s", "i", "b", "i", "l", "i", "t", "y", ".", " ",
            "T", "r", "a", "n", "s", "l", "a", "t", "e", " ", "a", "c", "r", "o", "n", "y",
            "m", "s", " ", "t", "o", " ", "f", "u", "l", "l", "\n", "w", "o", "r", "d", "s",
            " ", "b", "a", "s", "e", "d", " ", "u", "p", "o", "n", " ", "L", "I", "G", "O",
            " ", "A", "b", "b", "r", "e", "v", "i", "a", "t", "i", "o", "n", "s", " ", "a",
            "n", "d", " ", "A", "c", "r", "o", "n", "y", "m", "s", " ", "w", "h", "e", "n",
            "e", "v", "e", "r", " ", "p", "o", "s", "s", "i", "b", "l", "e", ".", "\n", "\n",
            "I", "M", "P", "O", "R", "T", "A", "N", "T", " ", "I", "N", "S", "T", "R", "U",
            "C", "T", "I", "O", "N", "S", ":", "\n", "1", ".", " ", "A", "n", "s", "w", "e",
            "r", " ", "O", "N", "L", "Y", " ", "u", "s", "i", "n", "g", " ", "t", "h", "e",
            " ", "p", "r", "o", "v", "i", "d", "e", "d", " ", "c", "o", "n", "t", "e", "x",
            "t", " ", "b", "e", "t", "w", "e", "e", "n", " ", "t", "h", "e", " ">>,
      tail |->
          <<" ", "m", "a", "r", "k", "e", "r", "s", "\n", "2", ".", " ", "A", "l", "w", "a",
            "y", "s", " ", "c", "i", "t", "e", " ", "y", "o", "u", "r", " ", "s", "o", "u",
            "r", "c", "e", "s", " ", "u", "s", "i", "n", "g", " ", "t", "h", "e", " ", "f",
            "o", "r", "m", "a", "t", " ", "[", "t", "e", "x", "t", "]", "(", "u", "r", "l",
            ")", " ", "f", "o", "r", " ", "U", "R", "L", "s", "\n", "3", ".", " ", "I", "f",
            " ", "y", "o", "u", " ", "r", "e", "f", "e", "r", "e", "n", "c", "e", " ", "a",
            " ", "d", "o", "c", "u", "m", "e", "n", "t", ",", " ", "i", "n", "c", "l", "u",
            "d", "e", " ", "t", "h", "e", " ", "t", "i", "t", "l", "e", " ", "a", "n", "d",
            " ", "a", "u", "t", "h", "o", "r", "s", "\n", "4", ".", " ", "U", "s", "e", " ",
            "p", "h", "r", "a", "s", "e", "s", " ", "l", "i", "k", "e", " ", "\"", "a", "c",
            "c", "o", "r", "d", "i", "n", "g", " ", "t", "o", "\"", " ", "o", "r", " ", "\"",
            "a", "s", " ", "m", "e", "n", "t", "i", "o", "n", "e", "d", " ", "i", "n", "\"",
            " ", "w", "h", "e", "n", " ", "c", "i", "t", "i", "n", "g", "\n", "5", ".", " ",
            "I", "f", " ", "t", "h", "e", " ", "c", "o", "n", "t", "e", "x", "t", " ", "d",
            "o", "e", "s", "n", "'", "t", " ", "c", "o", "n", "t", "a", "i", "n", " ", "e",
            "n", "o", "u", "g", "h", " ", "i", "n", "f", "o", "r", "m", "a", "t", "i", "o",
            "n", ",", " ", "c", "l", "e", "a", "r", "l", "y", " ", "s", "t", "a", "t", "e",
            " ", "t", "h", "i", "s", "\n", "6", ".", " ", "E", "x", "p", "a", "n", "d", " ",
            "a", "c", "r", "o", "n", "y", "m", "s", " ", "w", "h", "e", "n", " ", "p", "o",
            "s", "s", "i", "b", "l", "e", " ", "(", "e", ".", "g", ".", ",", " ", "L", "I",
            "G", "O", " ", "=", " ", "L", "a", "s", "e", "r", " ", "I", "n", "t", "e", "r",
            "f", "e", "r", "o", "m", "e", "t", "e", "r", " ", "G", "r", "a", "v", "i", "t",
            "a", "t", "i", "o", "n", "a", "l", "-", "W", "a", "v", "e", " ", "O", "b", "s",
            "e", "r", "v", "a", "t", "o", "r", "y", ")", "\n", "7", ".", " ", "M", "a", "i",
            "n", "t", "a", "i", "n", " ", "a", " ", "n", "e", "u", "t", "r", "a", "l", ",",
            " ", "i", "n", "f", "o", "r", "m", "a", "t", "i", "v", "e", " ", "t", "o", "n",
            "e", "\n", "8", ".", " ", "U", "s", "e", " ", "\"", "s", "o", "m", "e", "\"", " ",
            "r", "a", "t", "h", "e", "r", " ", "t", "h", "a", "n", " ", "\"", "a", "l", "l",
            "\"", " ", "w", "h", "e", "n", " ", "r", "e", "f", "e", "r", "r", "i", "n", "g",
            " ", "t", "o", " ", "d", "a", "t", "a", " ", "t", "o", " ", "a", "v", "o", "i",
            "d", " ", "e", "x", "t", "r", "e", "m", "e", "s", "\n", "\n", "W", "h", "e", "n",
            " ", "g", "e", "n", "e", "r", "a", "t", "i", "n", "g", " ", "s", "u", "m", "m",
            "a", "r", "i", "e", "s", ",", " ", "f", "o", "r", "m", "a", "t", " ", "a", "l",
            "l", " ", "U", "R", "L", "s", " ", "w", "i", "t", "h", "o", "u", "t", " ", "h",
            "a", "s", "h", "t", "a", "g", "s", " ", "f", "o", "l", "l", "o", "w", "i", "n",
            "g", " ", "t", "h", "i", "s", " ", "f", "o", "r", "m", "a", "t", ":", "\n", "[",
            "t", "e", "m", "p", "l", "a", "t", "e", "_", "l", "i", "n", "k", "_", "t", "e",
            "x", "t", "]", "(", "t", "e", "m", "p", "l", "a", "t", "e", "_", "l", "i", "n",
            "k", "_", "u", "r", "l", ")", ".", "\n", "\n", "S", "t", "r", "u", "c", "t", "u",
            "r", "e", " ", "r", "e", "s", "p", "o", "n", "s", "e", "s", " ", "l", "o", "g",
            "i", "c", "a", "l", "l", "y", ",", " ", "h", "i", "g", "h", "l", "i", "g", "h",
            "t", "i", "n", "g", " ", "c", "o", "m", "m", "o", "n", " ", "o", "r", " ", "r",
            "e", "c", "e", "n", "t", " ", "i", "s", "s", "u", "e", "s", ",", " ", "a", "n",
            "d", "\n", "m", "a", "i", "n", "t", "a", "i", "n", " ", "a", " ", "n", "e", "u",
            "t", "r", "a", "l", ",", " ", "i", "n", "f", "o", "r", "m", "a", "t", "i", "v",
            "e", " ", "t", "o", "n", "e", ".", " ", "P", "h", "r", "a", "s", "e", " ", "i",
            "n", "t", "e", "r", "p", "r", "e", "t", "a", "t", "i", "o", "n", "s", " ", "w",
            "i", "t", "h", " ", "r", "h", "e", "t", "o", "r", "i", "c", " ", "l", "i", "k",
            "e", "\n", "\"", "a", "n", "\"", " ", "(", "a", "s", " ", "o", "p", "p", "o", "s",
            "e", "d", " ", "t", "o", " ", "\"", "t", "h", "e", "\"", ")", " ", "a", "n", "d",
            " ", "\"", "s", "o", "m", "e", "\"", " ", "a", "s", " ", "o", "p", "p", "o", "s",
            "e", "d", " ", "t", "o", " ", "\"", "a", "l", "l", "\"", " ", "w", "h", "e", "n",
            " ", "r", "e", "f", "e", "r", "r", "i", "n", "g", " ", "t", "o", " ", "t", "h",
            "e", "\n", "d", "a", "t", "a", ".", " ", "T", "h", "i", "s", " ", "w", "i", "l",
            "l", " ", "a", "v", "o", "i", "d", " ", "e", "x", "t", "r", "e", "m", "e", "s",
            " ", "w", "h", "e", "n", " ", "t", "h", "e", "r", "e", " ", "i", "s", " ", "a",
            " ", "l", "a", "c", "k", " ", "o", "f", " ", "c", "l", "a", "r", "i", "t", "y",
            ".", "\n">> ]

\* src/app/prompts.py:82-92  the literal pieces of doc_text, in order
DOC_TEXT ==
    [ document |-> <<"\n", "D", "o", "c", "u", "m", "e", "n", "t", " ">>,
      title |-> <<":", "\n", "T", "i", "t", "l", "e", ":", " ">>,
      authors |-> <<"\n", "A", "u", "t", "h", "o", "r", "s", ":", " ">>,
      source |-> <<"\n", "S", "o", "u", "r", "c", "e", ":", " ">>,
      year |-> <<"\n", "Y", "e", "a", "r", ":", " ">>,
      url |-> <<"\n", "U", "R", "L", ":", " ">>,
      content |-> <<"\n", "\n", "C", "o", "n", "t", "e", "n", "t", ":", "\n">>,
      end |-> <<"\n">> ]

\* src/app/prompts.py:85-88  the text shown for an absent authors, year or url
\* unknown (prompts.py:85,87): "Unknown"
\* not_available (prompts.py:88): "Not available"
ABSENT_TEXT ==
    [ unknown |->
          <<"U", "n", "k", "n", "o", "w", "n">>,
      not_available |->
          <<"N", "o", "t", " ", "a", "v", "a", "i", "l", "a", "b", "l", "e">> ]
\* str(n) for an int
Digits == <<"0", "1", "2", "3", "4", "5", "6", "7", "8", "9">>

RECURSIVE NatToStr(_)
NatToStr(n) ==
    IF n < 10 THEN <<Digits[n + 1]>>
    ELSE NatToStr(n \div 10) \o <<Digits[(n % 10) + 1]>>

IntToStr(n) == IF n < 0 THEN <<"-">> \o NatToStr(-n) ELSE NatToStr(n)

\* A rendering that puts the URL before the year.
doc_text_UrlBeforeYear(i, doc) ==
    strip(DOC_TEXT.document \o IntToStr(i)
          \o DOC_TEXT.title \o doc.title
          \o DOC_TEXT.authors
          \o (IF doc.authors = None \/ doc.authors = Some(EmptyStr)
              THEN ABSENT_TEXT.unknown ELSE doc.authors[1])
          \o DOC_TEXT.source \o doc.source
          \o DOC_TEXT.url
          \o (IF doc.url = None \/ doc.url = Some(EmptyStr)
              THEN ABSENT_TEXT.not_available ELSE doc.url[1])
          \o DOC_TEXT.year
          \o (IF doc.year = None \/ doc.year = Some(0)
              THEN ABSENT_TEXT.unknown ELSE IntToStr(doc.year[1]))
          \o DOC_TEXT.content \o doc.content
          \o DOC_TEXT.end)

\* src/app/prompts.py:82-93  doc_text.strip() for the i-th document
doc_text(i, doc) ==
    strip(DOC_TEXT.document \o IntToStr(i)
          \o DOC_TEXT.title \o doc.title
          \o DOC_TEXT.authors
          \o (IF doc.authors = None \/ doc.authors = Some(EmptyStr)
              THEN ABSENT_TEXT.unknown ELSE doc.authors[1])
          \o DOC_TEXT.source \o doc.source
          \o DOC_TEXT.year
          \o (IF doc.year = None \/ doc.year = Some(0)
              THEN ABSENT_TEXT.unknown ELSE IntToStr(doc.year[1]))
          \o DOC_TEXT.url
          \o (IF doc.url = None \/ doc.url = Some(EmptyStr)
              THEN ABSENT_TEXT.not_available ELSE doc.url[1])
          \o DOC_TEXT.content \o doc.content
          \o DOC_TEXT.end)

\* "\n\n".join(parts)
RECURSIVE JoinBlankLine(_)
JoinBlankLine(parts) ==
    IF parts = EmptyList THEN EmptyStr
    ELSE IF Len(parts) = 1 THEN parts[1]
    ELSE parts[1] \o <<"\n", "\n">> \o JoinBlankLine(Tail(parts))

\* src/app/prompts.py:77-95  _format_retrieved_docs(docs)
_format_retrieved_docs(docs) ==
    JoinBlankLine([i \in 1..Len(docs) |-> doc_text(i, docs[i])])

\* The names a function body of app/prompts.py can read without a qualifier:
\* the module's globals (src/app/prompts.py:10-15).  A class attribute such
\* as RAGPromptManager.DATA_DELIMITER is not one of them.
PromptsModuleGlobals == {"re", "List", "Tuple", "DocumentChunk", "RAGPromptManager"}

\* The local names of create_rag_prompts when user_prompt is evaluated
\* (src/app/prompts.py:20,32).
CreateRagPromptsLocals == {"self", "question", "retrieved_docs", "context_text"}

\* src/app/prompts.py:20-75  create_rag_prompts(question, retrieved_docs).
\* The f-string of user_prompt reads the bare name DATA_DELIMITER
\* (src/app/prompts.py:39), which is looked up among the locals and then the
\* module's globals.
create_rag_prompts(question, docs) ==
    LET context_text == _format_retrieved_docs(docs)
        user_prompt ==
            USER_PROMPT.head \o question \o USER_PROMPT.middle
            \o DATA_DELIMITER \o <<"\n">> \o context_text \o <<"\n">> \o DATA_DELIMITER
            \o USER_PROMPT.tail
        system_prompt == SYSTEM_PROMPT.head \o DATA_DELIMITER \o SYSTEM_PROMPT.tail
    IN  IF "DATA_DELIMITER" \in CreateRagPromptsLocals \cup PromptsModuleGlobals
        THEN [raised |-> "", context_text |-> context_text,
              user_prompt |-> strip(user_prompt), system_prompt |-> strip(system_prompt)]
        ELSE [raised |-> "NameError", context_text |-> context_text,
              user_prompt |-> EmptyStr, system_prompt |-> EmptyStr]

\* src/app/prompts.py:104-111  the citation dict of one document; the
\* DocumentChunk model has no attribute score, so getattr gives None.
CitationDict(doc) ==
    [title           |-> doc.title,
     authors         |-> doc.authors,
     url             |-> doc.url,
     year            |-> doc.year,
     source          |-> doc.source,
     relevance_score |-> None]

\* A citation extraction that compares the title as written.
extract_citations_CaseSensitive(answer, docs) ==
    LET cited(doc) == Contains(doc.title, answer)
        cited_docs == SelectSeq(docs, cited)
    IN  [i \in 1..Len(cited_docs) |->
            [title |-> cited_docs[i].title, authors |-> cited_docs[i].authors,
             url |-> cited_docs[i].url, year |-> cited_docs[i].year,
             source |-> cited_docs[i].source, relevance_score |-> None]]

\* src/app/prompts.py:97-114  extract_citations(response, retrieved_docs)
extract_citations(answer, docs) ==
    LET cited(doc) == Contains(lower(doc.title), lower(answer))
        cited_docs == SelectSeq(docs, cited)
    IN  [i \in 1..Len(cited_docs) |-> CitationDict(cited_docs[i])]

---------------------------------------------------------------------------
(* ingestion/zotero_sync.py: ZoteroIngestion                               *)

\* src/ingestion/zotero_sync.py:169-202  _get_mock_items(): three processed
\* items (dicts without the key raw_data; year is an int)
mock_items ==
    << [ id |->
             Present(StrValue(<<"m", "o", "c", "k", "-", "z", "o", "t", "e", "r", "o", "-", "1">>)),
         title |->
             Present(StrValue(<<"A", "d", "v", "a", "n", "c", "e", "d", " ", "L", "I", "G", "O", ":", " ", "T",
                   "h", "e", " ", "N", "e", "x", "t", " ", "G", "e", "n", "e", "r", "a", "t", "i",
                   "o", "n", " ", "o", "f", " ", "G", "r", "a", "v", "i", "t", "a", "t", "i", "o",
                   "n", "a", "l", " ", "W", "a", "v", "e", " ", "D", "e", "t", "e", "c", "t", "o",
                   "r", "s">>)),
         authors |->
             Present(StrValue(<<"L", "I", "G", "O", " ", "S", "c", "i", "e", "n", "t", "i", "f", "i", "c", " ",
                   "C", "o", "l", "l", "a", "b", "o", "r", "a", "t", "i", "o", "n">>)),
         year |-> Present(IntValue(2023)),
         url |->
             Present(StrValue(<<"h", "t", "t", "p", "s", ":", "/", "/", "w", "w", "w", ".", "l", "i", "g", "o",
                   ".", "o", "r", "g", "/", "s", "c", "i", "e", "n", "c", "e", ".", "p", "h", "p">>)),
         abstract |->
             Present(StrValue(<<"T", "h", "i", "s", " ", "p", "a", "p", "e", "r", " ", "d", "e", "s", "c", "r",
                   "i", "b", "e", "s", " ", "t", "h", "e", " ", "A", "d", "v", "a", "n", "c", "e",
                   "d", " ", "L", "I", "G", "O", " ", "d", "e", "t", "e", "c", "t", "o", "r", " ",
                   "u", "p", "g", "r", "a", "d", "e", "s", " ", "a", "n", "d", " ", "t", "h", "e",
                   "i", "r", " ", "i", "m", "p", "a", "c", "t", " ", "o", "n", " ", "g", "r", "a",
                   "v", "i", "t", "a", "t", "i", "o", "n", "a", "l", " ", "w", "a", "v", "e", " ",
                   "d", "e", "t", "e", "c", "t", "i", "o", "n", " ", "s", "e", "n", "s", "i", "t",
                   "i", "v", "i", "t", "y", ".">>)),
         item_type |->
             Present(StrValue(<<"j", "o", "u", "r", "n", "a", "l", "A", "r", "t", "i", "c", "l", "e">>)),
         source |->
             Present(StrValue(<<"Z", "o", "t", "e", "r", "o">>)),
         raw_data |-> Absent ],
       [ id |->
             Present(StrValue(<<"m", "o", "c", "k", "-", "z", "o", "t", "e", "r", "o", "-", "2">>)),
         title |->
             Present(StrValue(<<"G", "r", "a", "v", "i", "t", "y", " ", "S", "p", "y", ":", " ", "A", " ", "C",
                   "i", "t", "i", "z", "e", "n", " ", "S", "c", "i", "e", "n", "c", "e", " ", "P",
                   "r", "o", "j", "e", "c", "t", " ", "f", "o", "r", " ", "L", "I", "G", "O", " ",
                   "G", "l", "i", "t", "c", "h", " ", "C", "l", "a", "s", "s", "i", "f", "i", "c",
                   "a", "t", "i", "o", "n">>)),
         authors |->
             Present(StrValue(<<"G", "r", "a", "v", "i", "t", "y", " ", "S", "p", "y", " ", "T", "e", "a", "m",
                   ",", " ", "L", "I", "G", "O", " ", "S", "c", "i", "e", "n", "t", "i", "f", "i",
                   "c", " ", "C", "o", "l", "l", "a", "b", "o", "r", "a", "t", "i", "o", "n">>)),
         year |-> Present(IntValue(2024)),
         url |->
             Present(StrValue(<<"h", "t", "t", "p", "s", ":", "/", "/", "w", "w", "w", ".", "z", "o", "o", "n",
                   "i", "v", "e", "r", "s", "e", ".", "o", "r", "g", "/", "p", "r", "o", "j", "e",
                   "c", "t", "s", "/", "z", "o", "o", "n", "i", "v", "e", "r", "s", "e", "/", "g",
                   "r", "a", "v", "i", "t", "y", "-", "s", "p", "y">>)),
         abstract |->
             Present(StrValue(<<"T", "h", "i", "s", " ", "p", "a", "p", "e", "r", " ", "p", "r", "e", "s", "e",
                   "n", "t", "s", " ", "t", "h", "e", " ", "G", "r", "a", "v", "i", "t", "y", " ",
                   "S", "p", "y", " ", "c", "i", "t", "i", "z", "e", "n", " ", "s", "c", "i", "e",
                   "n", "c", "e", " ", "p", "r", "o", "j", "e", "c", "t", " ", "a", "n", "d", " ",
                   "i", "t", "s", " ", "c", "o", "n", "t", "r", "i", "b", "u", "t", "i", "o", "n",
                   "s", " ", "t", "o", " ", "L", "I", "G", "O", " ", "d", "a", "t", "a", " ", "q",
                   "u", "a", "l", "i", "t", "y", ".">>)),
         item_type |->
             Present(StrValue(<<"j", "o", "u", "r", "n", "a", "l", "A", "r", "t", "i", "c", "l", "e">>)),
         source |->
             Present(StrValue(<<"Z", "o", "t", "e", "r", "o">>)),
         raw_data |-> Absent ],
       [ id |->
             Present(StrValue(<<"m", "o", "c", "k", "-", "z", "o", "t", "e", "r", "o", "-", "3">>)),
         title |->
             Present(StrValue(<<"U", "n", "d", "e", "r", "s", "t", "a", "n", "d", "i", "n", "g", " ", "L", "I",
                   "G", "O", " ", "D", "e", "t", "e", "c", "t", "o", "r", " ", "G", "l", "i", "t",
                   "c", "h", "e", "s", " ", "T", "h", "r", "o", "u", "g", "h", " ", "M", "a", "c",
                   "h", "i", "n", "e", " ", "L", "e", "a", "r", "n", "i", "n", "g">>)),
         authors |->
             Present(StrValue(<<"S", "m", "i", "t", "h", ",", " ", "A", ".", ",", " ", "J", "o", "h", "n", "s",
                   "o", "n", ",", " ", "B", ".", ",", " ", "L", "I", "G", "O", " ", "D", "e", "t",
                   "e", "c", "t", "o", "r", " ", "C", "h", "a", "r", "a", "c", "t", "e", "r", "i",
                   "z", "a", "t", "i", "o", "n", " ", "G", "r", "o", "u", "p">>)),
         year |-> Present(IntValue(2023)),
         url |->
             Present(StrValue(<<"h", "t", "t", "p", "s", ":", "/", "/", "a", "r", "x", "i", "v", ".", "o", "r",
                   "g", "/", "a", "b", "s", "/", "m", "o", "c", "k", "-", "p", "a", "p", "e", "r">>)),
         abstract |->
             Present(StrValue(<<"T", "h", "i", "s", " ", "s", "t", "u", "d", "y", " ", "e", "x", "p", "l", "o",
                   "r", "e", "s", " ", "m", "a", "c", "h", "i", "n", "e", " ", "l", "e", "a", "r",
                   "n", "i", "n", "g", " ", "a", "p", "p", "r", "o", "a", "c", "h", "e", "s", " ",
                   "t", "o", " ", "c", "l", "a", "s", "s", "i", "f", "y", " ", "a", "n", "d", " ",
                   "u", "n", "d", "e", "r", "s", "t", "a", "n", "d", " ", "i", "n", "s", "t", "r",
                   "u", "m", "e", "n", "t", "a", "l", " ", "g", "l", "i", "t", "c", "h", "e", "s",
                   " ", "i", "n", " ", "L", "I", "G", "O", " ", "d", "a", "t", "a", ".">>)),
         item_type |->
             Present(StrValue(<<"j", "o", "u", "r", "n", "a", "l", "A", "r", "t", "i", "c", "l", "e">>)),
         source |->
             Present(StrValue(<<"Z", "o", "t", "e", "r", "o">>)),
         raw_data |-> Absent ] >>

\* src/ingestion/zotero_sync.py:94  valid_types
valid_types ==
    {<<"j", "o", "u", "r", "n", "a", "l", "A", "r", "t", "i", "c", "l", "e">>, <<"b", "o", "o", "k">>, <<"b", "o", "o", "k", "S", "e", "c", "t", "i", "o", "n">>, <<"r", "e", "p", "o", "r", "t">>, <<"t", "h", "e", "s", "i", "s">>, <<"d", "o", "c", "u", "m", "e", "n", "t">>}

\* src/ingestion/zotero_sync.py:105-246  the literal text of the class
ZOTERO_TEXT ==
    [ pdf       |-> <<"a", "p", "p", "l", "i", "c", "a", "t", "i", "o", "n", "/", "p", "d", "f">>,
      author    |-> <<"a", "u", "t", "h", "o", "r">>,
      unknown   |-> <<"U", "n", "k", "n", "o", "w", "n">>,
      source    |-> <<"Z", "o", "t", "e", "r", "o">>,
      id_prefix |-> <<"z", "o", "t", "e", "r", "o", "-">>,
      title     |-> <<"T", "i", "t", "l", "e", ":", " ">>,
      authors   |-> <<"A", "u", "t", "h", "o", "r", "s", ":", " ">>,
      abstract  |-> <<"A", "b", "s", "t", "r", "a", "c", "t", ":", " ">>,
      year      |-> <<"Y", "e", "a", "r", ":", " ">> ]

\* sep.join(parts)
RECURSIVE join(_, _)
join(sep, parts) ==
    IF parts = EmptyList THEN EmptyStr
    ELSE IF Len(parts) = 1 THEN parts[1]
    ELSE parts[1] \o sep \o join(sep, Tail(parts))

\* int(value): Some(n), or None when int() raises ValueError or TypeError.
\* A str is stripped, may carry a sign, and must then be decimal digits.
py_int(value) ==
    LET RECURSIVE nat(_, _)
        nat(s, acc) ==
            IF s = EmptyStr THEN acc
            ELSE nat(Tail(s), 10 * acc + (CHOOSE d \in 0..9 : Digits[d + 1] = Head(s)))
        text == strip(value.v)
        signed == text # EmptyStr /\ Head(text) \in {"-", "+"}
        digits == IF signed THEN Tail(text) ELSE text
    IN  IF value.t = "int" THEN Some(value.v[1])
        ELSE IF value.t # "str" THEN None
        ELSE IF digits = EmptyStr \/ \E i \in 1..Len(digits) : digits[i] \notin Range(Digits)
             THEN None
        ELSE IF signed /\ Head(text) = "-" THEN Some(-nat(digits, 0))
        ELSE Some(nat(digits, 0))

\* A check that asks for a type and a title only.
_is_valid_item_NoLinkNeeded(item) ==
    /\ Get(item.data, "itemType", EmptyStr) \in valid_types
    /\ strip(Get(item.data, "title", EmptyStr)) # EmptyStr

\* src/ingestion/zotero_sync.py:88-108  _is_valid_item(item), as a bool.
\* An item the API returns is a dict with the keys key, data (a dict of
\* str values and the list creators) and attachments (here the list of the
\* attachments' data.contentType, absent or a str).
_is_valid_item(item) ==
    LET data == item.data
        item_type == Get(data, "itemType", EmptyStr)
        has_pdf == \E i \in 1..Len(item.attachments) :
                       item.attachments[i] = Present(ZOTERO_TEXT.pdf)
    IN  /\ item_type \in valid_types
        /\ strip(Get(data, "title", EmptyStr)) # EmptyStr
        /\ (has_pdf \/ Get(data, "url", EmptyStr) # EmptyStr)

\* src/ingestion/zotero_sync.py:128-140  _extract_authors(data)
_extract_authors(data) ==
    LET creators == Get(data, "creators", EmptyList)
        named(creator) ==
            /\ creator.creatorType = Present(ZOTERO_TEXT.author)
            /\ Get(creator, "lastName", EmptyStr) # EmptyStr
        kept == SelectSeq(creators, named)
        authors ==
            [i \in 1..Len(kept) |->
                strip(Get(kept[i], "firstName", EmptyStr) \o <<" ">>
                      \o Get(kept[i], "lastName", EmptyStr))]
    IN  IF authors # EmptyList THEN join(<<",", " ">>, authors) ELSE ZOTERO_TEXT.unknown

\* src/ingestion/zotero_sync.py:110-126  _process_zotero_item(item): a dict
\* whose values carry their Python type.  raw_data is the item's data dict.
_process_zotero_item(item) ==
    LET data == item.data
    IN  [ id        |-> Present(StrValue(Get(item, "key", EmptyStr))),
          title     |-> Present(StrValue(Get(data, "title", EmptyStr))),
          authors   |-> Present(StrValue(_extract_authors(data))),
          year      |-> Present(IF Get(data, "date", EmptyStr) # EmptyStr
                                THEN StrValue(SplitOn(data.date[1], <<"-">>)[1])
                                ELSE NullValue),
          url       |-> Present(StrValue(Get(data, "url", EmptyStr))),
          abstract  |-> Present(StrValue(Get(data, "abstractNote", EmptyStr))),
          item_type |-> Present(StrValue(Get(data, "itemType", EmptyStr))),
          source    |-> Present(StrValue(ZOTERO_TEXT.source)),
          raw_data  |-> Present(DictValue) ]

\* A sync that answers every failure with the empty list.
sync_zotero_items_EmptyOnFailure(limit, outcome) ==
    LET items == outcome.items
        processing_raises == \E i \in 1..Len(items) : items[i].t # "dict"
        valid == SelectSeq(items, _is_valid_item)
    IN  IF outcome.kind = "raise" \/ processing_raises
        THEN [path |-> "except Exception", items |-> EmptyList]
        ELSE [path |-> "try",
              items |-> [i \in 1..Len(valid) |-> _process_zotero_item(valid[i])]]

\* A sync that, when an item cannot be processed, returns the items it
\* has processed before that one.
sync_zotero_items_KeepsProcessed(limit, outcome) ==
    LET items == outcome.items
        bad == {i \in 1..Len(items) : items[i].t # "dict"}
        before == IF bad = {} THEN items
                  ELSE SubSeq(items, 1, (CHOOSE i \in bad : \A k \in bad : i <= k) - 1)
        valid == SelectSeq(before, _is_valid_item)
        processed_items == [i \in 1..Len(valid) |-> _process_zotero_item(valid[i])]
    IN  IF outcome.kind = "raise" /\ outcome.exc = "RequestException"
        THEN [path |-> "except RequestException", items |-> mock_items]
        ELSE IF outcome.kind = "raise"
        THEN [path |-> "except Exception", items |-> EmptyList]
        ELSE IF bad # {}
        THEN [path |-> "except Exception", items |-> processed_items]
        ELSE [path |-> "try", items |-> processed_items]

\* src/ingestion/zotero_sync.py:47-86  sync_zotero_items(limit).  `outcome`
\* is what requests.get, raise_for_status and response.json() do: one of
\* them raises (exc names the class the except clauses see), or json()
\* returns a list.  An element of the list that is no dict makes
\* _is_valid_item raise AttributeError.  limit is only sent to the API.
sync_zotero_items(limit, outcome) ==
    LET items == outcome.items
        processing_raises == \E i \in 1..Len(items) : items[i].t # "dict"
        valid == SelectSeq(items, _is_valid_item)
        processed_items == [i \in 1..Len(valid) |-> _process_zotero_item(valid[i])]
    IN  IF outcome.kind = "raise" /\ outcome.exc = "RequestException"
        THEN [path |-> "except RequestException", items |-> mock_items]
        ELSE IF outcome.kind = "raise" \/ processing_raises
        THEN [path |-> "except Exception", items |-> EmptyList]
        ELSE [path |-> "try", items |-> processed_items]

\* src/ingestion/zotero_sync.py:216-250  one turn of the loop of
\* create_document_chunks: the exception it raises ("" when none) and the
\* chunk it appends.  The metadata dict is kept as a dict without content.
item_chunk(item) ==
    LET \* bool(value) and f"{value}" of a value with its Python type
        Truthy(value) ==
            \/ value.t = "str" /\ value.v # EmptyStr
            \/ value.t = "int" /\ value.v[1] # 0
        str_of(value) ==
            IF value.t = "str" THEN value.v
            ELSE IF value.t = "int" THEN IntToStr(value.v[1])
            ELSE IF value.t = "NoneType" THEN <<"N", "o", "n", "e">>
            ELSE <<"{", "}">>
        part(key, label) ==
            IF Truthy(Get(item, key, NullValue))
            THEN <<label \o str_of(item[key][1])>> ELSE EmptyList
        content_parts ==
            part("title", ZOTERO_TEXT.title) \o part("authors", ZOTERO_TEXT.authors)
            \o part("abstract", ZOTERO_TEXT.abstract) \o part("year", ZOTERO_TEXT.year)
        content == join(<<"\n", "\n">>, content_parts)
        has_year == Truthy(Get(item, "year", NullValue))
        args ==
            [id          |-> StrValue(ZOTERO_TEXT.id_prefix \o str_of(item.id[1])),
             content     |-> StrValue(content),
             title       |-> item.title[1],
             authors     |-> Get(item, "authors", NullValue),
             url         |-> Get(item, "url", NullValue),
             year        |-> IF has_year THEN IntValue(py_int(item.year[1])[1]) ELSE NullValue,
             source      |-> StrValue(ZOTERO_TEXT.source),
             chunk_index |-> IntValue(0),
             metadata    |-> DictValue]
    IN  IF item.id = Absent \/ item.title = Absent
        THEN [raised |-> "KeyError", chunk |-> None]
        ELSE IF has_year /\ py_int(item.year[1]) = None
        THEN [raised |-> "ValueError", chunk |-> None]
        ELSE IF ~DocumentChunkValid(args)
        THEN [raised |-> "ValidationError", chunk |-> None]
        ELSE [raised |-> "", chunk |-> Some(DocumentChunk(args))]

\* src/ingestion/zotero_sync.py:204-253  create_document_chunks(items): the
\* chunks, or the exception the first failing item raises out of the call.
create_document_chunks(items) ==
    LET turns == [i \in 1..Len(items) |-> item_chunk(items[i])]
        failed == {i \in 1..Len(items) : turns[i].raised # ""}
    IN  IF failed # {}
        THEN [raised |-> turns[CHOOSE i \in failed : \A k \in failed : i <= k].raised,
              chunks |-> EmptyList]
        ELSE [raised |-> "", chunks |-> [i \in 1..Len(items) |-> turns[i].chunk[1]]]

---------------------------------------------------------------------------
(* Inputs: the questions, prompts and chunks of the tests and demo scripts  *)

\* src/tests/test_basic.py:25-48  sample_documents
sample_documents ==
    << [ id |->
             <<"t", "e", "s", "t", "-", "1">>,
         content |->
             <<"L", "I", "G", "O", " ", "i", "s", " ", "a", " ", "g", "r", "a", "v", "i", "t",
               "a", "t", "i", "o", "n", "a", "l", " ", "w", "a", "v", "e", " ", "d", "e", "t",
               "e", "c", "t", "o", "r", ".">>,
         title |->
             <<"L", "I", "G", "O", " ", "O", "v", "e", "r", "v", "i", "e", "w">>,
         authors |->
             Some(<<"L", "I", "G", "O", " ", "C", "o", "l", "l", "a", "b", "o", "r", "a", "t", "i",
                    "o", "n">>),
         url |->
             Some(<<"h", "t", "t", "p", "s", ":", "/", "/", "w", "w", "w", ".", "l", "i", "g", "o",
                    ".", "o", "r", "g">>),
         year |-> Some(2023),
         source |->
             <<"L", "I", "G", "O", " ", "D", "o", "c", "u", "m", "e", "n", "t", "a", "t", "i",
               "o", "n">>,
         chunk_index |-> 1,
         metadata |-> None ],
       [ id |->
             <<"t", "e", "s", "t", "-", "2">>,
         content |->
             <<"G", "r", "a", "v", "i", "t", "y", " ", "S", "p", "y", " ", "h", "e", "l", "p",
               "s", " ", "c", "l", "a", "s", "s", "i", "f", "y", " ", "g", "l", "i", "t", "c",
               "h", "e", "s", " ", "i", "n", " ", "L", "I", "G", "O", " ", "d", "a", "t", "a",
               ".">>,
         title |->
             <<"G", "r", "a", "v", "i", "t", "y", " ", "S", "p", "y", " ", "P", "r", "o", "j",
               "e", "c", "t">>,
         authors |->
             Some(<<"G", "r", "a", "v", "i", "t", "y", " ", "S", "p", "y", " ", "T", "e", "a", "m">>),
         url |->
             Some(<<"h", "t", "t", "p", "s", ":", "/", "/", "w", "w", "w", ".", "z", "o", "o", "n",
                    "i", "v", "e", "r", "s", "e", ".", "o", "r", "g", "/", "p", "r", "o", "j", "e",
                    "c", "t", "s", "/", "z", "o", "o", "n", "i", "v", "e", "r", "s", "e", "/", "g",
                    "r", "a", "v", "i", "t", "y", "-", "s", "p", "y">>),
         year |-> Some(2024),
         source |->
             <<"Z", "o", "o", "n", "i", "v", "e", "r", "s", "e">>,
         chunk_index |-> 1,
         metadata |-> None ] >>

\* The questions of the demo script and the tests, and two more
\* what_is_ligo (test_demo.py:30, tests/test_basic.py:99): "What is LIGO?"
\* gravity_spy (test_demo.py:31): "How does Gravity Spy work?"
\* alogs (test_demo.py:32): "What are aLOGs?"
\* glitches (test_demo.py:34): "What causes glitches in LIGO data?"
\* retrieval_test (tests/test_basic.py:75): "LIGO gravitational waves"
\* nonsense (none of its words occurs in a fixture): "asdfqwerty nonsense"
\* whitespace (a blank, a tab, a line break, a blank): " U+0009\n "
QUESTION ==
    [ what_is_ligo |->
          <<"W", "h", "a", "t", " ", "i", "s", " ", "L", "I", "G", "O", "?">>,
      gravity_spy |->
          <<"H", "o", "w", " ", "d", "o", "e", "s", " ", "G", "r", "a", "v", "i", "t", "y",
            " ", "S", "p", "y", " ", "w", "o", "r", "k", "?">>,
      alogs |->
          <<"W", "h", "a", "t", " ", "a", "r", "e", " ", "a", "L", "O", "G", "s", "?">>,
      glitches |->
          <<"W", "h", "a", "t", " ", "c", "a", "u", "s", "e", "s", " ", "g", "l", "i", "t",
            "c", "h", "e", "s", " ", "i", "n", " ", "L", "I", "G", "O", " ", "d", "a", "t",
            "a", "?">>,
      retrieval_test |->
          <<"L", "I", "G", "O", " ", "g", "r", "a", "v", "i", "t", "a", "t", "i", "o", "n",
            "a", "l", " ", "w", "a", "v", "e", "s">>,
      nonsense |->
          <<"a", "s", "d", "f", "q", "w", "e", "r", "t", "y", " ", "n", "o", "n", "s", "e",
            "n", "s", "e">>,
      whitespace |->
          <<" ", "\t", "\n", " ">> ]

\* The prompts and answers of the tests, and two more answers
\* prompt_head (tests/test_basic.py:87, user_prompt up to the question):
\* "Question: "
\* prompt_tail (tests/test_basic.py:87, user_prompt after the question):
\* "\n\nContext: LIGO is a gravitational wave detector."
\* system_prompt (tests/test_basic.py:88): "You are a helpful assistant."
\* response (tests/test_basic.py:113): "LIGO is a gravitational wave detector
\* as mentioned in the LIGO Overview document."
\* both_titles (an answer naming both sample titles, the second first, in
\* another case): "See "gravity spy project" and then "LIGO OVERVIEW"."
\* no_title (an answer naming no title): "Gravitational waves are ripples in
\* space-time."
TEST_TEXT ==
    [ prompt_head |->
          <<"Q", "u", "e", "s", "t", "i", "o", "n", ":", " ">>,
      prompt_tail |->
          <<"\n", "\n", "C", "o", "n", "t", "e", "x", "t", ":", " ", "L", "I", "G", "O", " ",
            "i", "s", " ", "a", " ", "g", "r", "a", "v", "i", "t", "a", "t", "i", "o", "n",
            "a", "l", " ", "w", "a", "v", "e", " ", "d", "e", "t", "e", "c", "t", "o", "r",
            ".">>,
      system_prompt |->
          <<"Y", "o", "u", " ", "a", "r", "e", " ", "a", " ", "h", "e", "l", "p", "f", "u",
            "l", " ", "a", "s", "s", "i", "s", "t", "a", "n", "t", ".">>,
      response |->
          <<"L", "I", "G", "O", " ", "i", "s", " ", "a", " ", "g", "r", "a", "v", "i", "t",
            "a", "t", "i", "o", "n", "a", "l", " ", "w", "a", "v", "e", " ", "d", "e", "t",
            "e", "c", "t", "o", "r", " ", "a", "s", " ", "m", "e", "n", "t", "i", "o", "n",
            "e", "d", " ", "i", "n", " ", "t", "h", "e", " ", "L", "I", "G", "O", " ", "O",
            "v", "e", "r", "v", "i", "e", "w", " ", "d", "o", "c", "u", "m", "e", "n", "t",
            ".">>,
      both_titles |->
          <<"S", "e", "e", " ", "\"", "g", "r", "a", "v", "i", "t", "y", " ", "s", "p", "y",
            " ", "p", "r", "o", "j", "e", "c", "t", "\"", " ", "a", "n", "d", " ", "t", "h",
            "e", "n", " ", "\"", "L", "I", "G", "O", " ", "O", "V", "E", "R", "V", "I", "E",
            "W", "\"", ".">>,
      no_title |->
          <<"G", "r", "a", "v", "i", "t", "a", "t", "i", "o", "n", "a", "l", " ", "w", "a",
            "v", "e", "s", " ", "a", "r", "e", " ", "r", "i", "p", "p", "l", "e", "s", " ",
            "i", "n", " ", "s", "p", "a", "c", "e", "-", "t", "i", "m", "e", ".">> ]
---------------------------------------------------------------------------
(* Bounds and input sets                                                   *)

\* Longest generated question, and the characters it is made of: a blank,
\* an upper-case letter found (lower-cased) in one fixture only, a letter
\* found in another fixture only, and a letter found in none.
MaxQuestionLen == 2
QuestionAlphabet == {" ", "Z", "k", "q"}

\* Longest list of chunks handed to the prompt manager.
MaxDocs == 2

\* src/app/schemas.py:17-18  the documented ranges of top_k and max_tokens
TOP_K_MIN == 1
TOP_K_MAX == 20
MAX_TOKENS_MIN == 100
MAX_TOKENS_MAX == 2000

SampleQuestions == {QUESTION[f] : f \in DOMAIN QUESTION}

GeneratedQuestions == UNION {[1..n -> QuestionAlphabet] : n \in 0..MaxQuestionLen}

Questions == SampleQuestions \cup GeneratedQuestions

\* top_k below, at and above the number of fixtures, and around the
\* documented range.
TopKValues == (TOP_K_MIN - 2)..(TOP_K_MIN + 2) \cup {TOP_K_MAX, TOP_K_MAX + 1}

MaxTokensValues == {MAX_TOKENS_MIN - 1, MAX_TOKENS_MAX + 1}

\* The JSON bodies posted to /ask: each key absent, or present with a value
\* of the declared type (null is a value of an Optional field).
Bodies ==
    [question   : {Absent} \cup {Present(q) : q \in Questions},
     top_k      : {Absent, Present(None)} \cup {Present(Some(k)) : k \in TopKValues},
     max_tokens : {Absent} \cup {Present(Some(m)) : m \in MaxTokensValues}]

\* A search result carrying every field of a chunk.
ResultOf(doc) ==
    [id          |-> Present(StrValue(doc.id)),
     content     |-> Present(StrValue(doc.content)),
     title       |-> Present(StrValue(doc.title)),
     authors     |-> Present(StrValue(doc.authors[1])),
     url         |-> Present(StrValue(doc.url[1])),
     year        |-> Present(IntValue(doc.year[1])),
     source      |-> Present(StrValue(doc.source)),
     chunk_index |-> Present(IntValue(doc.chunk_index)),
     metadata    |-> Present(DictValue)]

\* A search result with only id and content, and one whose year is the
\* str "n.d.", which DocumentChunk rejects.
ResultMinimal(doc) ==
    [id          |-> Present(StrValue(doc.id)),
     content     |-> Present(StrValue(doc.content)),
     title       |-> Absent,
     authors     |-> Absent,
     url         |-> Absent,
     year        |-> Absent,
     source      |-> Absent,
     chunk_index |-> Absent,
     metadata    |-> Absent]

ResultBadYear(doc) ==
    [ResultOf(doc) EXCEPT !.year = Present(StrValue(<<"n", ".", "d", ".">>))]

\* What the search backend may do for one search call.
SearchOutcomes ==
    << [kind |-> "raise", results |-> EmptyList],
       [kind |-> "results", results |-> EmptyList],
       [kind |-> "results", results |-> <<ResultOf(sample_documents[1])>>],
       [kind |-> "results",
        results |-> <<ResultOf(sample_documents[1]), ResultMinimal(sample_documents[2])>>],
       [kind |-> "results",
        results |-> <<ResultOf(sample_documents[1]), ResultBadYear(sample_documents[2])>>] >>

NotCalled == 0

RetrieverTopKs == {Some(k) : k \in TopKValues}

\* What the completion backend may do for one create call.
CompletionOutcomes ==
    << [kind |-> "AzureError", choices |-> EmptyList],
       [kind |-> "Exception", choices |-> EmptyList],
       [kind |-> "completion", choices |-> EmptyList],
       [kind |-> "completion", choices |-> <<None>>],
       [kind |-> "completion", choices |-> <<Some(EmptyStr)>>],
       [kind |-> "completion", choices |-> <<Some(TEST_TEXT.response)>>] >>

\* The prompt of the test around every question, every question as it
\* is, and the prompt for a question that itself begins with "Question: ".
UserPrompts ==
    {TEST_TEXT.prompt_head \o q \o TEST_TEXT.prompt_tail : q \in Questions} \cup Questions
    \cup {TEST_TEXT.prompt_head \o TEST_TEXT.prompt_head \o QUESTION.what_is_ligo
              \o TEST_TEXT.prompt_tail}

SystemPrompts == {TEST_TEXT.system_prompt, EmptyStr}

\* A chunk with a short title and no optional field.
BareChunk ==
    [id |-> <<"c", "1">>, content |-> <<"L", "I", "G", "O">>, title |-> <<"L", "I", "G", "O">>,
     authors |-> None, url |-> None, year |-> None,
     source |-> <<"Z", "o", "t", "e", "r", "o">>, chunk_index |-> 0, metadata |-> None]

ChunkPool == Range(sample_documents) \cup Range(mock_docs) \cup {BareChunk}

DocLists == UNION {[1..n -> ChunkPool] : n \in 0..MaxDocs}

Answers == {TEST_TEXT.response, TEST_TEXT.both_titles, TEST_TEXT.no_title, EmptyStr}

---------------------------------------------------------------------------
(* Inputs of the ingestion                                                 *)

\* Longest list of items handed to create_document_chunks.
MaxItems == 2

\* A creator of an item, as the API returns it.
Creator(creatorType, firstName, lastName) ==
    [creatorType |-> Present(creatorType),
     firstName   |-> IF firstName = EmptyStr THEN Absent ELSE Present(firstName),
     lastName    |-> IF lastName = EmptyStr THEN Absent ELSE Present(lastName)]

\* Items the bibliography API may return (elements of response.json()):
\* an accepted article; two web pages, with and without title and URL; a
\* book with a blank title; a book with a PDF attachment and no URL; a
\* report with neither PDF nor URL; a thesis dated by season; and an element
\* that is a str instead of a dict.
ZOTERO_ITEMS ==
    [ article |->
          [t |-> "dict", key |-> Present(<<"A", "1">>),
           data |-> [itemType |-> Present(<<"j", "o", "u", "r", "n", "a", "l", "A", "r", "t", "i", "c", "l", "e">>), title |-> Present(<<"L", "I", "G", "O">>),
                     url |-> Present(<<"h", "t", "t", "p", "s", ":", "/", "/", "l", "i", "g", "o", ".", "o", "r", "g">>), date |-> Present(<<"2", "0", "1", "6", "-", "0", "2", "-", "1", "1">>),
                     abstractNote |-> Present(<<"W", "a", "v", "e", "s">>),
                     creators |-> Present(<<Creator(<<"a", "u", "t", "h", "o", "r">>, <<"R", "a", "i", "n", "e", "r">>, <<"W", "e", "i", "s", "s">>),
                                            Creator(<<"e", "d", "i", "t", "o", "r">>, <<"K", "i", "p">>, <<"T", "h", "o", "r", "n", "e">>),
                                            Creator(<<"a", "u", "t", "h", "o", "r">>, EmptyStr, <<"L", "S", "C">>),
                                            Creator(<<"a", "u", "t", "h", "o", "r">>, <<"A", "n", "o", "n">>, EmptyStr)>>)],
           attachments |-> EmptyList],
      webpage |->
          [t |-> "dict", key |-> Present(<<"W", "1">>),
           data |-> [itemType |-> Present(<<"w", "e", "b", "p", "a", "g", "e">>), title |-> Present(<<"G", "r", "a", "v", "i", "t", "y", " ", "S", "p", "y">>),
                     url |-> Present(<<"h", "t", "t", "p", "s", ":", "/", "/", "g", "r", "a", "v", "i", "t", "y", "s", "p", "y", ".", "o", "r", "g">>), date |-> Absent,
                     abstractNote |-> Absent, creators |-> Absent],
           attachments |-> EmptyList],
      webpage_bare |->
          [t |-> "dict", key |-> Present(<<"W", "2">>),
           data |-> [itemType |-> Present(<<"w", "e", "b", "p", "a", "g", "e">>), title |-> Absent,
                     url |-> Absent, date |-> Absent,
                     abstractNote |-> Absent, creators |-> Absent],
           attachments |-> EmptyList],
      blank_title |->
          [t |-> "dict", key |-> Present(<<"B", "1">>),
           data |-> [itemType |-> Present(<<"b", "o", "o", "k">>), title |-> Present(<<" ", "\t">>),
                     url |-> Present(<<"h", "t", "t", "p", "s", ":", "/", "/", "l", "i", "g", "o", ".", "o", "r", "g">>), date |-> Present(<<"2", "0", "2", "0">>),
                     abstractNote |-> Absent, creators |-> Absent],
           attachments |-> EmptyList],
      book_pdf |->
          [t |-> "dict", key |-> Present(<<"P", "1">>),
           data |-> [itemType |-> Present(<<"b", "o", "o", "k">>), title |-> Present(<<"G", "l", "i", "t", "c", "h", "e", "s">>),
                     url |-> Absent, date |-> Present(<<"2", "0", "1", "9">>),
                     abstractNote |-> Absent,
                     creators |-> Present(<<Creator(<<"e", "d", "i", "t", "o", "r">>, <<"K", "i", "p">>, <<"T", "h", "o", "r", "n", "e">>)>>)],
           attachments |-> <<Absent, Present(<<"a", "p", "p", "l", "i", "c", "a", "t", "i", "o", "n", "/", "p", "d", "f">>)>>],
      report_nolink |->
          [t |-> "dict", key |-> Present(<<"R", "1">>),
           data |-> [itemType |-> Present(<<"r", "e", "p", "o", "r", "t">>), title |-> Present(<<"N", "o", "i", "s", "e">>),
                     url |-> Present(EmptyStr), date |-> Absent,
                     abstractNote |-> Absent, creators |-> Absent],
           attachments |-> <<Present(<<"t", "e", "x", "t", "/", "h", "t", "m", "l">>)>>],
      thesis_season |->
          [t |-> "dict", key |-> Present(<<"T", "1">>),
           data |-> [itemType |-> Present(<<"t", "h", "e", "s", "i", "s">>), title |-> Present(<<"C", "h", "i", "r", "p", "s">>),
                     url |-> Present(<<"h", "t", "t", "p", "s", ":", "/", "/", "l", "i", "g", "o", ".", "o", "r", "g", "/", "t">>), date |-> Present(<<"S", "p", "r", "i", "n", "g", " ", "2", "0", "2", "0">>),
                     abstractNote |-> Absent, creators |-> Absent],
           attachments |-> EmptyList],
      not_a_dict |->
          [t |-> "str", key |-> Absent,
           data |-> [itemType |-> Absent, title |-> Absent, url |-> Absent, date |-> Absent,
                     abstractNote |-> Absent, creators |-> Absent],
           attachments |-> EmptyList] ]

\* What the bibliography API may do for one request: requests.get raises
\* (connection, timeout), raise_for_status raises HTTPError, response.json()
\* raises (requests.JSONDecodeError, a RequestException, from requests 2.27
\* on; a plain ValueError before), or json() returns a list.
RequestOutcomes ==
    << [kind |-> "raise", step |-> "get", exc |-> "RequestException", items |-> EmptyList],
       [kind |-> "raise", step |-> "raise_for_status", exc |-> "RequestException",
        items |-> EmptyList],
       [kind |-> "raise", step |-> "json", exc |-> "RequestException", items |-> EmptyList],
       [kind |-> "raise", step |-> "json", exc |-> "ValueError", items |-> EmptyList],
       [kind |-> "json", step |-> "", exc |-> "", items |-> EmptyList],
       [kind |-> "json", step |-> "", exc |-> "",
        items |-> <<ZOTERO_ITEMS.webpage, ZOTERO_ITEMS.article, ZOTERO_ITEMS.webpage_bare>>],
       [kind |-> "json", step |-> "", exc |-> "",
        items |-> <<ZOTERO_ITEMS.blank_title, ZOTERO_ITEMS.book_pdf,
                    ZOTERO_ITEMS.report_nolink, ZOTERO_ITEMS.thesis_season>>],
       [kind |-> "json", step |-> "", exc |-> "",
        items |-> <<ZOTERO_ITEMS.article, ZOTERO_ITEMS.not_a_dict>>] >>

\* Processed items: what _process_zotero_item makes of the API's items, the
\* mock items, and an item without the key title.
ItemPool ==
    {_process_zotero_item(ZOTERO_ITEMS[f]) : f \in DOMAIN ZOTERO_ITEMS \ {"not_a_dict"}}
    \cup Range(mock_items)
    \cup {[_process_zotero_item(ZOTERO_ITEMS.webpage) EXCEPT !.title = Absent, !.url = Absent]}

\* The lists handed to create_document_chunks: short lists of processed
\* items, and every list sync_zotero_items returns.
ItemLists ==
    UNION {[1..n -> ItemPool] : n \in 0..MaxItems}
    \cup {sync_zotero_items(100, RequestOutcomes[n]).items : n \in 1..Len(RequestOutcomes)}

---------------------------------------------------------------------------
(* The external backends                                                   *)

\* Were a failed call repeated once before the fallback, a failing
\* operation would call its backend twice.
BackendCalls_RetryOnce(has_client, outcome) ==
    IF ~has_client THEN 0
    ELSE IF outcome.kind \in {"raise", "AzureError", "Exception"} THEN 2
    ELSE 1

\* The calls one operation makes to its backend (generator.py:62-73,
\* retriever.py:67-72, zotero_sync.py:65): the one call of its try block
\* when it holds a client for the backend, none otherwise.  No except
\* clause calls the backend again.
BackendCalls(has_client, outcome) == IF has_client THEN 1 ELSE 0

---------------------------------------------------------------------------
(* app/main.py: requests handled concurrently                              *)

\* No request, and the body of none.
NoRequest == [question |-> EmptyStr, top_k |-> None, max_tokens |-> None]
NoBody == [question |-> Absent, top_k |-> Absent, max_tokens |-> Absent]

\* Two requests in flight at once.
Requests == {1, 2}

\* The bodies posted concurrently: questions that retrieve three documents,
\* two and none, with the default top_k and with top_k = 1; and a body
\* without a question.
ConcurrentBodies ==
    [question   : {Present(QUESTION.what_is_ligo), Present(QUESTION.gravity_spy),
                   Present(QUESTION.nonsense)},
     top_k      : {Absent, Present(Some(TOP_K_MIN))},
     max_tokens : {Absent}]
    \cup {NoBody}

\* A handler that is not running.
NoHandler ==
    [pc |-> "idle", body |-> NoBody, request |-> NoRequest, retrieved_docs |-> EmptyList,
     response |-> EmptyStr, http_status |-> 0, chat_response |-> None]

\* A handler whose retrieval takes the documents it returns out of the
\* module global.
ask_step_Consuming(h, documents) ==
    LET retrieved ==
            get_mock_documents_in(documents, h.request.question, h.request.top_k)
        left(doc) == \A k \in 1..Len(retrieved) : retrieved[k] # doc
    IN  [documents |-> IF h.pc = "handling" THEN SelectSeq(documents, left) ELSE documents,
         handler |->
            IF h.pc = "handling"
            THEN [h EXCEPT !.retrieved_docs = retrieved, !.pc = "retrieved"]
            ELSE IF h.pc = "retrieved" /\ h.retrieved_docs = EmptyList
            THEN [h EXCEPT !.chat_response = Some(NoInfoResponse),
                           !.http_status = 200, !.pc = "done"]
            ELSE IF h.pc = "retrieved"
            THEN [h EXCEPT !.response = generate_mock_response(h.request.question,
                                                               h.retrieved_docs),
                           !.pc = "generated"]
            ELSE [h EXCEPT !.chat_response =
                               Some(AnswerResponse(h.response, h.retrieved_docs)),
                           !.http_status = 200, !.pc = "done"]]

\* src/app/main.py:160-191  one step of ask_question, on the handler's locals
\* h and the module global MOCK_DOCUMENTS (`documents`): what the step makes
\* of both.  No step assigns to the global or to an element of it.
ask_step(h, documents) ==
    [documents |-> documents,
     handler |->
        IF h.pc = "handling"
        THEN [h EXCEPT !.retrieved_docs =
                           get_mock_documents_in(documents, h.request.question,
                                                 h.request.top_k),
                       !.pc = "retrieved"]
        ELSE IF h.pc = "retrieved" /\ h.retrieved_docs = EmptyList
        THEN [h EXCEPT !.chat_response = Some(NoInfoResponse),
                       !.http_status = 200, !.pc = "done"]
        ELSE IF h.pc = "retrieved"
        THEN [h EXCEPT !.response = generate_mock_response(h.request.question,
                                                           h.retrieved_docs),
                       !.pc = "generated"]
        ELSE [h EXCEPT !.chat_response = Some(AnswerResponse(h.response, h.retrieved_docs)),
                       !.http_status = 200, !.pc = "done"]]

\* src/app/main.py:197-206  GET /index/status
index_status(documents) ==
    [status |-> "healthy", total_documents |-> Len(documents), mode |-> "mock"]

---------------------------------------------------------------------------
(* The objects are exercised one operation at a time, as the tests and the *)
(* demo scripts do: an operation starts when no other is in progress.      *)

NoRetArgs == [query |-> EmptyStr, top_k |-> None]
NoRetResult == [path |-> "", documents |-> EmptyList]
NoGenArgs == [user_prompt |-> EmptyStr, system_prompt |-> EmptyStr, max_tokens |-> 0]
NoGenResult == [path |-> "", text |-> EmptyStr]
NoGenAgain == [system_prompt |-> EmptyStr, max_tokens |-> 0, text |-> EmptyStr]
NoPmArgs == [text |-> EmptyStr, docs |-> EmptyList]
NoPmResult ==
    [raised |-> "", context_text |-> EmptyStr, user_prompt |-> EmptyStr,
     system_prompt |-> EmptyStr, citations |-> EmptyList]

NoZotArgs == [limit |-> 0, items |-> EmptyList]
NoZotResult == [path |-> "", raised |-> "", items |-> EmptyList, chunks |-> EmptyList]

AllIdle ==
    /\ ask_pc = "idle" /\ ret_pc = "idle" /\ gen_pc = "idle" /\ pm_pc = "idle"
    /\ zot_pc = "idle"
    /\ \A i \in DOMAIN handlers : handlers[i].pc = "idle"

Init ==
    /\ ask_pc = "idle"
    /\ request_body = NoBody
    /\ request = NoRequest
    /\ retrieved_docs = EmptyList
    /\ response = EmptyStr
    /\ http_status = 0
    /\ chat_response = None
    /\ calls = EmptyList
    /\ ret_pc = "idle"
    /\ ret_settings = "none"
    /\ search_client = "unset"
    /\ ret_args = NoRetArgs
    /\ ret_backend = NotCalled
    /\ ret_result = NoRetResult
    /\ gen_pc = "idle"
    /\ client = "unset"
    /\ gen_args = NoGenArgs
    /\ gen_backend = NotCalled
    /\ gen_result = NoGenResult
    /\ gen_again = NoGenAgain
    /\ healthy = None
    /\ pm_pc = "idle"
    /\ pm_op = "none"
    /\ pm_args = NoPmArgs
    /\ pm_result = NoPmResult
    /\ zot_pc = "idle"
    /\ zot_op = "none"
    /\ zot_args = NoZotArgs
    /\ zot_backend = NotCalled
    /\ zot_result = NoZotResult
    /\ handlers = [i \in Requests |-> NoHandler]
    /\ document_store = MOCK_DOCUMENTS
    /\ backend_calls = 0

---------------------------------------------------------------------------
(* app/main.py: POST /ask                                                  *)

\* src/app/main.py:152-153  a request arrives; FastAPI validates the body
\* against ChatRequest before the handler runs and answers 422 itself when
\* the body does not validate.
AskReceive(body) ==
    /\ AllIdle
    /\ request_body' = body
    /\ IF ChatRequestValid(body)
       THEN /\ request' = ChatRequest(body)
            /\ ask_pc' = "handling"
            /\ http_status' = 0
       ELSE /\ request' = NoRequest
            /\ ask_pc' = "done"
            /\ http_status' = 422
    /\ UNCHANGED <<retrieved_docs, response, chat_response, calls>>
    /\ UNCHANGED <<ret_vars, gen_vars, pm_vars, zot_vars, srv_vars, backend_calls>>

\* src/app/main.py:160-161  Step 1: retrieve
AskRetrieve ==
    /\ ask_pc = "handling"
    /\ retrieved_docs' = get_mock_documents(request.question, request.top_k)
    /\ calls' = Append(calls, "get_mock_documents")
    /\ ask_pc' = "retrieved"
    /\ UNCHANGED <<request_body, request, response, http_status, chat_response>>
    /\ UNCHANGED <<ret_vars, gen_vars, pm_vars, zot_vars, srv_vars, backend_calls>>

\* src/app/main.py:163-169  nothing retrieved: the fixed answer
AskNoDocs ==
    /\ ask_pc = "retrieved"
    /\ retrieved_docs = EmptyList
    /\ chat_response' = Some(NoInfoResponse)
    /\ http_status' = 200
    /\ ask_pc' = "done"
    /\ UNCHANGED <<request_body, request, retrieved_docs, response, calls>>
    /\ UNCHANGED <<ret_vars, gen_vars, pm_vars, zot_vars, srv_vars, backend_calls>>

\* A handler that generates whatever was retrieved.
AskGenerate_OnAnyRetrieval ==
    /\ ask_pc = "retrieved"
    /\ response' = generate_mock_response(request.question, retrieved_docs)
    /\ calls' = Append(calls, "generate_mock_response")
    /\ ask_pc' = "generated"
    /\ UNCHANGED <<request_body, request, retrieved_docs, http_status, chat_response>>
    /\ UNCHANGED <<ret_vars, gen_vars, pm_vars, zot_vars, srv_vars, backend_calls>>

\* src/app/main.py:171-172  Step 2: generate
AskGenerate ==
    /\ ask_pc = "retrieved"
    /\ retrieved_docs # EmptyList
    /\ response' = generate_mock_response(request.question, retrieved_docs)
    /\ calls' = Append(calls, "generate_mock_response")
    /\ ask_pc' = "generated"
    /\ UNCHANGED <<request_body, request, retrieved_docs, http_status, chat_response>>
    /\ UNCHANGED <<ret_vars, gen_vars, pm_vars, zot_vars, srv_vars, backend_calls>>

\* src/app/main.py:174-191  Step 3: citations, and the response
AskRespond ==
    /\ ask_pc = "generated"
    /\ chat_response' = Some(AnswerResponse(response, retrieved_docs))
    /\ http_status' = 200
    /\ ask_pc' = "done"
    /\ UNCHANGED <<request_body, request, retrieved_docs, response, calls>>
    /\ UNCHANGED <<ret_vars, gen_vars, pm_vars, zot_vars, srv_vars, backend_calls>>

\* src/app/main.py:154-195  a statement of the try block raises an exception
\* nobody expected (the handler's own code raises none for a valid request);
\* the except clause answers.
AskRaise ==
    /\ ask_pc \in {"handling", "retrieved", "generated"}
    /\ http_status' = ask_question_except(retrieved_docs, response).http_status
    /\ chat_response' = ask_question_except(retrieved_docs, response).chat_response
    /\ ask_pc' = "failed"
    /\ UNCHANGED <<request_body, request, retrieved_docs, response, calls>>
    /\ UNCHANGED <<ret_vars, gen_vars, pm_vars, zot_vars, srv_vars, backend_calls>>

\* The response has been sent; the handler's locals are gone.
AskReturn ==
    /\ ask_pc \in {"done", "failed"}
    /\ ask_pc' = "idle"
    /\ request_body' = NoBody
    /\ request' = NoRequest
    /\ retrieved_docs' = EmptyList
    /\ response' = EmptyStr
    /\ http_status' = 0
    /\ chat_response' = None
    /\ calls' = EmptyList
    /\ UNCHANGED <<ret_vars, gen_vars, pm_vars, zot_vars, srv_vars, backend_calls>>

AskNext ==
    \/ \E body \in Bodies : AskReceive(body)
    \/ AskRetrieve
    \/ AskNoDocs
    \/ AskGenerate
    \/ AskRespond
    \/ AskRaise
    \/ AskReturn

---------------------------------------------------------------------------
(* app/retriever.py: DocumentRetriever                                     *)

\* src/app/retriever.py:27-45  DocumentRetriever(settings).  With the values
\* of MockSettings (src/app/config.py:62-75: an https endpoint and a str key)
\* the client's construction succeeds; with settings read from the
\* environment it may raise.
RetrieverNew(settings, constructs) ==
    /\ AllIdle
    /\ settings = "MockSettings" => constructs
    /\ ret_settings' = settings
    /\ search_client' = DocumentRetriever_initialize_client(constructs)
    /\ ret_pc' = "ready"
    /\ UNCHANGED <<ret_args, ret_backend, ret_result, backend_calls>>
    /\ UNCHANGED <<ask_vars, gen_vars, pm_vars, zot_vars, srv_vars>>

\* src/app/retriever.py:47-95  await retrieve_documents(query, top_k).  The
\* MockSearchClient calls no backend.  The endpoint of MockSettings names no
\* service, so a search at it raises.
RetrieveDocuments(query, top_k, n) ==
    /\ ret_pc = "ready"
    /\ \/ search_client = "mock" /\ n = NotCalled
       \/ /\ search_client = "azure"
          /\ n \in 1..Len(SearchOutcomes)
          /\ ret_settings = "MockSettings" => SearchOutcomes[n].kind = "raise"
    /\ ret_args' = [query |-> query, top_k |-> top_k]
    /\ ret_backend' = n
    /\ backend_calls' = BackendCalls(search_client = "azure", SearchOutcomes[n])
    /\ ret_result' =
          retrieve_documents(search_client, query, top_k,
                             IF n = NotCalled THEN SearchOutcomes[1] ELSE SearchOutcomes[n])
    /\ ret_pc' = "done"
    /\ UNCHANGED <<ret_settings, search_client>>
    /\ UNCHANGED <<ask_vars, gen_vars, pm_vars, zot_vars, srv_vars>>

\* The caller has the result; the retriever is ready for the next call.
RetrieveReturn ==
    /\ ret_pc = "done"
    /\ ret_pc' = "ready"
    /\ ret_args' = NoRetArgs
    /\ ret_backend' = NotCalled
    /\ ret_result' = NoRetResult
    /\ backend_calls' = 0
    /\ UNCHANGED <<ret_settings, search_client>>
    /\ UNCHANGED <<ask_vars, gen_vars, pm_vars, zot_vars, srv_vars>>

\* The retriever object is dropped.
RetrieverDrop ==
    /\ ret_pc = "ready"
    /\ ret_pc' = "idle"
    /\ ret_settings' = "none"
    /\ search_client' = "unset"
    /\ UNCHANGED <<ret_args, ret_backend, ret_result, backend_calls>>
    /\ UNCHANGED <<ask_vars, gen_vars, pm_vars, zot_vars, srv_vars>>

RetrieverNext ==
    \/ \E settings \in {"MockSettings", "Settings"}, constructs \in BOOLEAN :
           RetrieverNew(settings, constructs)
    \/ \E query \in Questions, top_k \in RetrieverTopKs, n \in 0..Len(SearchOutcomes) :
           RetrieveDocuments(query, top_k, n)
    \/ RetrieveReturn
    \/ RetrieverDrop

---------------------------------------------------------------------------
(* app/generator.py: ResponseGenerator                                     *)

\* src/app/generator.py:23-39  ResponseGenerator(settings)
GeneratorNew(constructs) ==
    /\ AllIdle
    /\ client' = ResponseGenerator_initialize_client(constructs)
    /\ gen_pc' = "ready"
    /\ UNCHANGED <<gen_args, gen_backend, gen_result, gen_again, healthy, backend_calls>>
    /\ UNCHANGED <<ask_vars, ret_vars, pm_vars, zot_vars, srv_vars>>

\* src/app/generator.py:41-84  await generate_response(user_prompt,
\* system_prompt, max_tokens).  Without a client no backend is called.
GenerateResponse(user_prompt, system_prompt, max_tokens, n) ==
    /\ gen_pc = "ready"
    /\ \/ client = "none" /\ n = NotCalled
       \/ client = "azure" /\ n \in 1..Len(CompletionOutcomes)
    /\ gen_args' = [user_prompt |-> user_prompt, system_prompt |-> system_prompt,
                    max_tokens |-> max_tokens]
    /\ gen_backend' = n
    /\ gen_result' =
          generate_response(client, user_prompt, system_prompt, max_tokens,
                            IF n = NotCalled THEN CompletionOutcomes[1]
                            ELSE CompletionOutcomes[n])
    /\ backend_calls' = BackendCalls(client = "azure", CompletionOutcomes[n])
    /\ gen_pc' = "done"
    /\ UNCHANGED <<client, gen_again, healthy>>
    /\ UNCHANGED <<ask_vars, ret_vars, pm_vars, zot_vars, srv_vars>>

\* src/app/generator.py:41-60  the same generator, holding no client, is
\* called once more with the same user_prompt and any system_prompt and
\* max_tokens.
GenerateAgain(system_prompt, max_tokens) ==
    /\ gen_pc = "done"
    /\ client = "none"
    /\ gen_again' =
          [system_prompt |-> system_prompt, max_tokens |-> max_tokens,
           text |-> generate_response(client, gen_args.user_prompt, system_prompt,
                                      max_tokens, CompletionOutcomes[1]).text]
    /\ backend_calls' = BackendCalls(client = "azure", CompletionOutcomes[1])
    /\ gen_pc' = "again"
    /\ UNCHANGED <<client, gen_args, gen_backend, gen_result, healthy>>
    /\ UNCHANGED <<ask_vars, ret_vars, pm_vars, zot_vars, srv_vars>>

\* src/app/generator.py:86-101  await health_check()
HealthCheck(n) ==
    /\ gen_pc = "ready"
    /\ \/ client = "none" /\ n = NotCalled
       \/ client = "azure" /\ n \in 1..Len(CompletionOutcomes)
    /\ gen_backend' = n
    /\ healthy' = Some(health_check(client, IF n = NotCalled THEN CompletionOutcomes[1]
                                            ELSE CompletionOutcomes[n]))
    /\ backend_calls' = BackendCalls(client = "azure", CompletionOutcomes[n])
    /\ gen_pc' = "probed"
    /\ UNCHANGED <<client, gen_args, gen_result, gen_again>>
    /\ UNCHANGED <<ask_vars, ret_vars, pm_vars, zot_vars, srv_vars>>

\* The caller has the result; the generator is ready for the next call.
GenerateReturn ==
    /\ gen_pc \in {"done", "again", "probed"}
    /\ gen_pc' = "ready"
    /\ gen_args' = NoGenArgs
    /\ gen_backend' = NotCalled
    /\ gen_result' = NoGenResult
    /\ gen_again' = NoGenAgain
    /\ healthy' = None
    /\ backend_calls' = 0
    /\ UNCHANGED client
    /\ UNCHANGED <<ask_vars, ret_vars, pm_vars, zot_vars, srv_vars>>

\* The generator object is dropped.
GeneratorDrop ==
    /\ gen_pc = "ready"
    /\ gen_pc' = "idle"
    /\ client' = "unset"
    /\ UNCHANGED <<gen_args, gen_backend, gen_result, gen_again, healthy, backend_calls>>
    /\ UNCHANGED <<ask_vars, ret_vars, pm_vars, zot_vars, srv_vars>>

GeneratorNext ==
    \/ \E constructs \in BOOLEAN : GeneratorNew(constructs)
    \/ \E user_prompt \in UserPrompts, system_prompt \in SystemPrompts,
          max_tokens \in {MAX_TOKENS_MIN, DEFAULT_MAX_TOKENS},
          n \in 0..Len(CompletionOutcomes) :
           GenerateResponse(user_prompt, system_prompt, max_tokens, n)
    \/ \E system_prompt \in SystemPrompts, max_tokens \in {MAX_TOKENS_MIN, DEFAULT_MAX_TOKENS} :
           GenerateAgain(system_prompt, max_tokens)
    \/ \E n \in 0..Len(CompletionOutcomes) : HealthCheck(n)
    \/ GenerateReturn
    \/ GeneratorDrop

---------------------------------------------------------------------------
(* app/prompts.py: RAGPromptManager (it has no state of its own)           *)

\* src/app/prompts.py:20-75  create_rag_prompts(question, retrieved_docs)
CreateRagPrompts(question, docs) ==
    /\ AllIdle
    /\ pm_op' = "create_rag_prompts"
    /\ pm_args' = [text |-> question, docs |-> docs]
    /\ pm_result' =
          LET r == create_rag_prompts(question, docs)
          IN  [raised |-> r.raised, context_text |-> r.context_text,
               user_prompt |-> r.user_prompt, system_prompt |-> r.system_prompt,
               citations |-> EmptyList]
    /\ pm_pc' = "done"
    /\ UNCHANGED <<ask_vars, ret_vars, gen_vars, zot_vars, srv_vars, backend_calls>>

\* src/app/prompts.py:97-114  extract_citations(response, retrieved_docs)
ExtractCitations(answer, docs) ==
    /\ AllIdle
    /\ pm_op' = "extract_citations"
    /\ pm_args' = [text |-> answer, docs |-> docs]
    /\ pm_result' = [NoPmResult EXCEPT !.citations = extract_citations(answer, docs)]
    /\ pm_pc' = "done"
    /\ UNCHANGED <<ask_vars, ret_vars, gen_vars, zot_vars, srv_vars, backend_calls>>

PromptsReturn ==
    /\ pm_pc = "done"
    /\ pm_pc' = "idle"
    /\ pm_op' = "none"
    /\ pm_args' = NoPmArgs
    /\ pm_result' = NoPmResult
    /\ UNCHANGED <<ask_vars, ret_vars, gen_vars, zot_vars, srv_vars, backend_calls>>

PromptsNext ==
    \/ \E question \in SampleQuestions, docs \in DocLists : CreateRagPrompts(question, docs)
    \/ \E answer \in Answers, docs \in DocLists : ExtractCitations(answer, docs)
    \/ PromptsReturn

---------------------------------------------------------------------------
(* ingestion/zotero_sync.py: ZoteroIngestion (an offline batch job)        *)

\* src/ingestion/zotero_sync.py:47-86  await sync_zotero_items(limit)
SyncZoteroItems(limit, n) ==
    /\ AllIdle
    /\ zot_op' = "sync_zotero_items"
    /\ zot_args' = [limit |-> limit, items |-> EmptyList]
    /\ zot_backend' = n
    /\ zot_result' =
          LET r == sync_zotero_items(limit, RequestOutcomes[n])
          IN  [path |-> r.path, raised |-> "", items |-> r.items, chunks |-> EmptyList]
    /\ backend_calls' = BackendCalls(TRUE, RequestOutcomes[n])
    /\ zot_pc' = "done"
    /\ UNCHANGED <<ask_vars, ret_vars, gen_vars, pm_vars, srv_vars>>

\* src/ingestion/zotero_sync.py:204-253  await create_document_chunks(items)
CreateDocumentChunks(items) ==
    /\ AllIdle
    /\ zot_op' = "create_document_chunks"
    /\ zot_args' = [limit |-> 0, items |-> items]
    /\ zot_backend' = NotCalled
    /\ zot_result' =
          LET r == create_document_chunks(items)
          IN  [path |-> "", raised |-> r.raised, items |-> EmptyList, chunks |-> r.chunks]
    /\ zot_pc' = "done"
    /\ UNCHANGED backend_calls
    /\ UNCHANGED <<ask_vars, ret_vars, gen_vars, pm_vars, srv_vars>>

\* The caller has the result.
ZoteroReturn ==
    /\ zot_pc = "done"
    /\ zot_pc' = "idle"
    /\ zot_op' = "none"
    /\ zot_args' = NoZotArgs
    /\ zot_backend' = NotCalled
    /\ zot_result' = NoZotResult
    /\ backend_calls' = 0
    /\ UNCHANGED <<ask_vars, ret_vars, gen_vars, pm_vars, srv_vars>>

ZoteroNext ==
    \/ \E limit \in {1, 100}, n \in 1..Len(RequestOutcomes) : SyncZoteroItems(limit, n)
    \/ \E items \in ItemLists : CreateDocumentChunks(items)
    \/ ZoteroReturn

---------------------------------------------------------------------------
(* app/main.py: the server, with several /ask requests in flight           *)

\* src/app/main.py:152-153  a request arrives while others may be in flight
ServerReceive(i, body) ==
    /\ handlers[i].pc = "idle"
    /\ ask_pc = "idle" /\ ret_pc = "idle" /\ gen_pc = "idle" /\ pm_pc = "idle"
    /\ zot_pc = "idle"
    /\ handlers' =
          [handlers EXCEPT ![i] =
              IF ChatRequestValid(body)
              THEN [NoHandler EXCEPT !.pc = "handling", !.body = body,
                                     !.request = ChatRequest(body)]
              ELSE [NoHandler EXCEPT !.pc = "done", !.body = body, !.http_status = 422]]
    /\ UNCHANGED document_store
    /\ UNCHANGED <<ask_vars, ret_vars, gen_vars, pm_vars, zot_vars, backend_calls>>

\* src/app/main.py:160-191  one handler takes its next step
ServerStep(i) ==
    /\ handlers[i].pc \in {"handling", "retrieved", "generated"}
    /\ LET step == ask_step(handlers[i], document_store)
       IN  /\ handlers' = [handlers EXCEPT ![i] = step.handler]
           /\ document_store' = step.documents
    /\ UNCHANGED <<ask_vars, ret_vars, gen_vars, pm_vars, zot_vars, backend_calls>>

\* The response has been sent; the handler's locals are gone.
ServerReturn(i) ==
    /\ handlers[i].pc = "done"
    /\ handlers' = [handlers EXCEPT ![i] = NoHandler]
    /\ UNCHANGED document_store
    /\ UNCHANGED <<ask_vars, ret_vars, gen_vars, pm_vars, zot_vars, backend_calls>>

ServerNext ==
    \E i \in Requests :
        \/ \E body \in ConcurrentBodies : ServerReceive(i, body)
        \/ ServerStep(i)
        \/ ServerReturn(i)

---------------------------------------------------------------------------

Next ==
    \/ AskNext
    \/ RetrieverNext
    \/ GeneratorNext
    \/ PromptsNext
    \/ ZoteroNext
    \/ ServerNext

Spec == Init /\ [][Next]_vars

---------------------------------------------------------------------------
(* Properties                                                              *)

\* Some whitespace-delimited token of the query occurs, ignoring case, in
\* the title or the content of one of the chunks.
SomeTokenOccurs(query, chunks) ==
    \E token \in Range(split(lower(query))), i \in 1..Len(chunks) :
        \/ Contains(token, lower(chunks[i].title))
        \/ Contains(token, lower(chunks[i].content))

InDocumentedTopK(top_k) ==
    top_k # None /\ top_k[1] \in TOP_K_MIN..TOP_K_MAX

\* C1: for a query with a token occurring in a fixture chunk's title or
\* content and top_k in 1..20, retrieval (get_mock_documents in /ask, and
\* retrieve_documents of a retriever built from MockSettings) returns a
\* non-empty list of at most top_k chunks.
C1_RetrieveNonEmptyAtMostTopK ==
    /\ ( /\ ask_pc = "retrieved"
         /\ InDocumentedTopK(request.top_k)
         /\ SomeTokenOccurs(request.question, MOCK_DOCUMENTS) )
       => /\ retrieved_docs # EmptyList
          /\ Len(retrieved_docs) <= request.top_k[1]
    /\ ( /\ ret_pc = "done"
         /\ ret_settings = "MockSettings"
         /\ InDocumentedTopK(ret_args.top_k)
         /\ SomeTokenOccurs(ret_args.query, mock_docs) )
       => /\ ret_result.documents # EmptyList
          /\ Len(ret_result.documents) <= ret_args.top_k[1]

\* A retriever built from MockSettings was asked "What is LIGO?" with
\* top_k = 2 and returned two of the three matching chunks.
C1_Witness ==
    /\ ret_pc = "done"
    /\ ret_settings = "MockSettings"
    /\ ret_args = [query |-> QUESTION.what_is_ligo, top_k |-> Some(2)]
    /\ Len(ret_result.documents) = 2

LIGO == <<"L", "I", "G", "O">>

AskedWhatIsLigo ==
    /\ ask_pc = "done"
    /\ request_body.question = Present(QUESTION.what_is_ligo)
    /\ request_body.top_k = Absent

\* C2 as stated: /ask with "What is LIGO?" and the default top_k answers
\* with sources_used = 1, confidence "medium" and an answer containing LIGO.
C2_Original ==
    AskedWhatIsLigo =>
        /\ http_status = 200
        /\ chat_response # None
        /\ chat_response[1].sources_used = 1
        /\ chat_response[1].confidence = "medium"
        /\ Contains(LIGO, chat_response[1].answer)

\* C2 (amended): /ask with "What is LIGO?" and the default top_k answers
\* with sources_used = 3 and confidence "high" (the token "is" occurs in all
\* three fixtures), and an answer containing LIGO.
C2_WhatIsLigoUsesAllThree ==
    AskedWhatIsLigo =>
        /\ http_status = 200
        /\ chat_response # None
        /\ chat_response[1].sources_used = 3
        /\ chat_response[1].confidence = "high"
        /\ Contains(LIGO, chat_response[1].answer)

\* The request "What is LIGO?" without top_k has been answered.
C2_Witness == AskedWhatIsLigo /\ http_status = 200

\* C3: every ChatResponse of /ask has sources_used = len(citations), and a
\* confidence of "low" for 0 sources, "medium" for 1, "high" for 2 or more.
C3_SourcesAndConfidence ==
    (ask_pc = "done" /\ chat_response # None) =>
        LET r == chat_response[1]
        IN  /\ r.sources_used = Len(r.citations)
            /\ r.sources_used = 0 => r.confidence = "low"
            /\ r.sources_used = 1 => r.confidence = "medium"
            /\ r.sources_used >= 2 => r.confidence = "high"

\* A response with two sources, cut from three matches by a negative top_k.
C3_Witness ==
    /\ ask_pc = "done"
    /\ chat_response # None
    /\ request.top_k = Some(-1)
    /\ chat_response[1].sources_used = 2

\* The search call raised, or a search result could not be converted.
BackendFailed ==
    /\ ret_pc = "done"
    /\ search_client = "azure"
    /\ ret_backend # NotCalled
    /\ \/ SearchOutcomes[ret_backend].kind = "raise"
       \/ \E i \in 1..Len(SearchOutcomes[ret_backend].results) :
              ~DocumentChunkValid(ChunkArguments(SearchOutcomes[ret_backend].results[i]))

\* C4: when the search call or the conversion of its results fails,
\* retrieve_documents catches the failure and returns the keyword filter's
\* result over the three fixture chunks for the same query and top_k.
C4_FailureFallsBackToKeywordFilter ==
    BackendFailed =>
        /\ ret_result.path = "except"
        /\ ret_result.documents = _get_mock_documents(ret_args.query, ret_args.top_k)
        /\ \A i \in 1..Len(ret_result.documents) :
               ret_result.documents[i] \in Range(mock_docs)

\* A conversion failure (the second result's year is not an int) after which
\* the fixture chunks matching the query were returned.
C4_Witness ==
    /\ BackendFailed
    /\ SearchOutcomes[ret_backend].kind = "results"
    /\ ret_args.query = QUESTION.gravity_spy
    /\ Len(ret_result.documents) = 1
    /\ ret_result.documents[1].id = <<"m", "o", "c", "k", "-", "2">>

\* C5 as stated: generate_response returns a non-empty str whatever the
\* prompts and max_tokens are and whatever the backend does.
C5_GenerateReturnsNonEmptyText ==
    gen_pc = "done" => gen_result.text # EmptyStr

CITIZEN_SCIENTISTS ==
    <<"c", "i", "t", "i", "z", "e", "n", " ", "s", "c", "i", "e", "n", "t", "i", "s", "t", "s">>

\* The line "~~~" occurs twice in the text, with the formatted context
\* between the two occurrences.
DelimitersEnclose(text, context) ==
    Contains(<<"\n", "~", "~", "~", "\n">> \o context \o <<"\n", "~", "~", "~", "\n">>, text)

\* C6 as stated: create_rag_prompts returns a user_prompt containing the
\* question and two "~~~" lines around the formatted context, and a
\* system_prompt containing "citizen scientists".
C6_PromptsCarryQuestionAndDelimiters ==
    (pm_pc = "done" /\ pm_op = "create_rag_prompts") =>
        /\ pm_result.raised = ""
        /\ Contains(pm_args.text, pm_result.user_prompt)
        /\ DelimitersEnclose(pm_result.user_prompt, pm_result.context_text)
        /\ Contains(CITIZEN_SCIENTISTS, pm_result.system_prompt)

\* The positions, in the list of chunks, of the chunks whose lower-cased
\* title occurs in the lower-cased answer.
CitedPositions(answer, docs) ==
    {i \in 1..Len(docs) : Contains(lower(docs[i].title), lower(answer))}

\* The k-th least element of a set of positions.
KthOf(S, k) == CHOOSE i \in S : Cardinality({j \in S : j <= i}) = k

\* C7: extract_citations returns one citation for each chunk whose
\* lower-cased title is a substring of the lower-cased answer and none for
\* any other chunk, in the order of the chunks, each with the chunk's title,
\* authors, url, year and source.
C7_CitationsAreTheTitledChunksInOrder ==
    (pm_pc = "done" /\ pm_op = "extract_citations") =>
        LET cited == CitedPositions(pm_args.text, pm_args.docs)
            citations == pm_result.citations
        IN  /\ Len(citations) = Cardinality(cited)
            /\ \A k \in 1..Len(citations) :
                   LET doc == pm_args.docs[KthOf(cited, k)]
                   IN  /\ citations[k].title = doc.title
                       /\ citations[k].authors = doc.authors
                       /\ citations[k].url = doc.url
                       /\ citations[k].year = doc.year
                       /\ citations[k].source = doc.source

\* The answer names "gravity spy project" before "LIGO OVERVIEW", in another
\* case than the titles; both sample chunks are cited, in the chunks' order.
C7_Witness ==
    /\ pm_pc = "done"
    /\ pm_op = "extract_citations"
    /\ pm_args = [text |-> TEST_TEXT.both_titles, docs |-> sample_documents]
    /\ Len(pm_result.citations) = 2
    /\ pm_result.citations[1].title = sample_documents[1].title
    /\ pm_result.citations[2].title = sample_documents[2].title

COULD_NOT_FIND ==
    <<"c", "o", "u", "l", "d", "n", "'", "t", " ", "f", "i", "n", "d", " ",
      "r", "e", "l", "e", "v", "a", "n", "t", " ",
      "i", "n", "f", "o", "r", "m", "a", "t", "i", "o", "n">>

\* C8: when retrieval returns no chunk, /ask answers 200 with the fixed
\* "couldn't find relevant information" text, no citation, sources_used = 0
\* and confidence "low"; the question "asdfqwerty nonsense" is such a case.
C8_EmptyRetrievalGivesNoInfoResponse ==
    /\ ( /\ ask_pc = "done"
         /\ calls # EmptyList
         /\ retrieved_docs = EmptyList )
       => /\ http_status = 200
          /\ chat_response # None
          /\ Contains(COULD_NOT_FIND, chat_response[1].answer)
          /\ chat_response[1].answer = DEMO_ANSWER.no_info
          /\ chat_response[1].citations = EmptyList
          /\ chat_response[1].sources_used = 0
          /\ chat_response[1].confidence = "low"
    /\ (ask_pc = "done" /\ request.question = QUESTION.nonsense)
       => retrieved_docs = EmptyList

\* "asdfqwerty nonsense" has been answered.
C8_Witness ==
    /\ ask_pc = "done"
    /\ request.question = QUESTION.nonsense
    /\ request.top_k = Some(DEFAULT_TOP_K)
    /\ chat_response # None

\* The body's question is empty, or its top_k or max_tokens is a number
\* outside the documented range.
Malformed(body) ==
    \/ body.question = Present(EmptyStr)
    \/ /\ body.top_k # Absent
       /\ body.top_k[1] # None
       /\ body.top_k[1][1] \notin TOP_K_MIN..TOP_K_MAX
    \/ /\ body.max_tokens # Absent
       /\ body.max_tokens[1] # None
       /\ body.max_tokens[1][1] \notin MAX_TOKENS_MIN..MAX_TOKENS_MAX

\* C9 as stated: a malformed body is answered 422 at validation and neither
\* retrieval nor generation is invoked for it.
C9_MalformedRequestRejected ==
    Malformed(request_body) =>
        /\ calls = EmptyList
        /\ ask_pc = "done" => http_status = 422

\* The text is empty or made only of whitespace characters.
OnlyWhitespace(s) == \A i \in 1..Len(s) : s[i] \in Whitespace

\* C10: for an empty query or one made only of whitespace, the keyword
\* retrievers (get_mock_documents in /ask, _get_mock_documents in the
\* retriever's except branch) return the empty list, for any top_k.
C10_BlankQueryRetrievesNothing ==
    /\ (ask_pc = "retrieved" /\ OnlyWhitespace(request.question))
       => retrieved_docs = EmptyList
    /\ (ret_pc = "done" /\ ret_result.path = "except" /\ OnlyWhitespace(ret_args.query))
       => ret_result.documents = EmptyList

\* The query of two blanks has been looked up in /ask with top_k = 20.
C10_Witness ==
    /\ ask_pc = "retrieved"
    /\ request.question = <<" ", " ">>
    /\ request.top_k = Some(TOP_K_MAX)
    /\ retrieved_docs = EmptyList

---------------------------------------------------------------------------
(* Ingestion, purity of the fallback, health check, server errors          *)

\* sync_zotero_items has returned, and the request it sent failed:
\* requests.get raised, or the response's status made raise_for_status raise.
RequestFailed ==
    /\ zot_pc = "done"
    /\ zot_op = "sync_zotero_items"
    /\ RequestOutcomes[zot_backend].kind = "raise"
    /\ RequestOutcomes[zot_backend].step \in {"get", "raise_for_status"}

\* C11: when the request to the bibliography API fails, sync_zotero_items
\* returns the three mock items; and whatever the request does, the call
\* returns a list and raises nothing.
C11_RequestFailureGivesMockItems ==
    /\ RequestFailed =>
           /\ zot_result.items = mock_items
           /\ Len(zot_result.items) = 3
    /\ (zot_pc = "done" /\ zot_op = "sync_zotero_items") =>
           /\ zot_result.raised = ""
           /\ zot_result.path \in {"try", "except RequestException", "except Exception"}

\* The API answered with an error status and the mock items were returned.
C11_Witness ==
    /\ RequestFailed
    /\ RequestOutcomes[zot_backend].step = "raise_for_status"
    /\ zot_result.path = "except RequestException"
    /\ zot_result.items[3].id = Present(StrValue(<<"m", "o", "c", "k", "-", "z", "o", "t", "e", "r", "o", "-", "3">>))

\* The item is a processed item of type "webpage".
IsWebpage(item) == item.item_type = Present(StrValue(<<"w", "e", "b", "p", "a", "g", "e">>))

C13_FallbackIsPure ==
    (gen_pc = "again" /\ client = "none") =>
        /\ gen_again.text = gen_result.text
        /\ gen_result.path = "no client"

\* The second call had another system_prompt and another max_tokens than
\* the first, and both returned the same non-empty text.
C13_Witness ==
    /\ gen_pc = "again"
    /\ client = "none"
    /\ gen_args.user_prompt = TEST_TEXT.prompt_head \o QUESTION.what_is_ligo \o TEST_TEXT.prompt_tail
    /\ gen_again.system_prompt # gen_args.system_prompt
    /\ gen_again.max_tokens # gen_args.max_tokens
    /\ gen_again.text # EmptyStr
    /\ gen_again.text = gen_result.text

\* The probe of the health check was sent and did not return a completion
\* with a content of type str.
ProbeFailed ==
    /\ client = "azure"
    /\ \/ CompletionOutcomes[gen_backend].kind # "completion"
       \/ CompletionOutcomes[gen_backend].choices = EmptyList
       \/ CompletionOutcomes[gen_backend].choices[1] = None

\* C14: health_check returns a bool and raises nothing: False without a
\* client and when the probe fails, True only when the probe returned a
\* non-empty text.
C14_HealthCheckNeverRaises ==
    gen_pc = "probed" =>
        /\ healthy \in {Some(TRUE), Some(FALSE)}
        /\ client = "none" => healthy = Some(FALSE)
        /\ ProbeFailed => healthy = Some(FALSE)
        /\ healthy = Some(TRUE) =>
               /\ client = "azure"
               /\ ~ProbeFailed
               /\ CompletionOutcomes[gen_backend].choices[1][1] # EmptyStr

\* The probe returned a text and the check answered True.
C14_Witness ==
    /\ gen_pc = "probed"
    /\ client = "azure"
    /\ ~ProbeFailed
    /\ CompletionOutcomes[gen_backend].choices[1] = Some(TEST_TEXT.response)
    /\ healthy = Some(TRUE)

\* C15: an exception raised while ask_question runs is answered with HTTP
\* 500 and no ChatResponse, whatever the handler had computed by then.
C15_ExceptionGivesServerError ==
    ask_pc = "failed" =>
        /\ http_status = 500
        /\ chat_response = None

\* The exception came after retrieval and generation had succeeded.
C15_Witness ==
    /\ ask_pc = "failed"
    /\ retrieved_docs # EmptyList
    /\ response # EmptyStr
    /\ http_status = 500

\* What POST /ask answers to the body when no other request is in flight:
\* the status and the ChatResponse of the handler run from start to end over
\* the fixture documents.
AnswerAlone(body) ==
    IF ~ChatRequestValid(body)
    THEN [http_status |-> 422, chat_response |-> None]
    ELSE LET req == ChatRequest(body)
             docs == get_mock_documents(req.question, req.top_k)
         IN  [http_status |-> 200,
              chat_response |->
                  IF docs = EmptyList THEN Some(NoInfoResponse)
                  ELSE Some(AnswerResponse(generate_mock_response(req.question, docs),
                                           docs))]

\* C16: however the steps of concurrent /ask requests interleave, every
\* request is answered as it is when it runs alone, and the module global
\* MOCK_DOCUMENTS, with the total_documents of /index/status, stays as it is.
C16_ConcurrentRequestsDoNotInterfere ==
    /\ document_store = MOCK_DOCUMENTS
    /\ index_status(document_store).total_documents = Len(MOCK_DOCUMENTS)
    /\ \A i \in Requests :
           handlers[i].pc = "done" =>
               /\ handlers[i].http_status = AnswerAlone(handlers[i].body).http_status
               /\ handlers[i].chat_response = AnswerAlone(handlers[i].body).chat_response

\* One request has been answered from three documents while another, which
\* retrieved one document, is between its generation and its response.
C16_Witness ==
    /\ handlers[1].pc = "done"
    /\ handlers[1].request.question = QUESTION.what_is_ligo
    /\ handlers[1].chat_response # None
    /\ handlers[1].chat_response[1].sources_used = 3
    /\ handlers[2].pc = "generated"
    /\ handlers[2].request.question = QUESTION.gravity_spy
    /\ Len(handlers[2].retrieved_docs) = 1

\* retrieve_documents has returned and the search backend was not
\* available to it: the retriever holds the MockSearchClient because its
\* client could not be constructed, or the search call raised.
SearchUnavailable ==
    /\ ret_pc = "done"
    /\ \/ search_client = "mock"
       \/ /\ search_client = "azure"
          /\ SearchOutcomes[ret_backend].kind = "raise"

\* C17 as stated: whenever the search backend is unavailable,
\* retrieve_documents returns the keyword matches among the fixture chunks,
\* truncated to top_k.
C17_UnavailableSearchFallsBack ==
    SearchUnavailable =>
        ret_result.documents = _get_mock_documents(ret_args.query, ret_args.top_k)

\* The positions, in the document store, of the chunks that match the
\* query: some whitespace-delimited token of the lower-cased query is a
\* substring of the chunk's lower-cased content or lower-cased title.
MatchingPositions(query, store) ==
    {i \in 1..Len(store) :
        \E token \in Range(split(lower(query))) :
            \/ Contains(token, lower(store[i].content))
            \/ Contains(token, lower(store[i].title))}

\* The result is made of matching chunks only, in the order of the store
\* and without a gap; for a top_k that is a count (an int >= 0) it is the
\* first top_k matches, or all of them when there are fewer.
IsKeywordReference(result, query, top_k, store) ==
    LET matching == MatchingPositions(query, store)
    IN  /\ Len(result) <= Cardinality(matching)
        /\ \A j \in 1..Len(result) : result[j] = store[KthOf(matching, j)]
        /\ (top_k # None /\ top_k[1] >= 0) =>
               Len(result) = Min(top_k[1], Cardinality(matching))

\* C18: both keyword retrievers return the reference result: the chunks
\* with a query token in their lower-cased content or title, in store
\* order, cut to the first top_k.
C18_KeywordRetrieverIsReference ==
    /\ ask_pc = "retrieved" =>
           IsKeywordReference(retrieved_docs, request.question, request.top_k,
                              MOCK_DOCUMENTS)
    /\ (ret_pc = "done" /\ ret_result.path = "except") =>
           IsKeywordReference(ret_result.documents, ret_args.query, ret_args.top_k,
                              mock_docs)

\* The retriever's keyword filter found three chunks for "What is LIGO?"
\* and, with top_k = 2, returned the first two of them.
C18_Witness ==
    /\ ret_pc = "done"
    /\ ret_result.path = "except"
    /\ ret_args.query = QUESTION.what_is_ligo
    /\ ret_args.top_k = Some(2)
    /\ Cardinality(MatchingPositions(ret_args.query, mock_docs)) = 3
    /\ ret_result.documents = <<mock_docs[1], mock_docs[2]>>

\* The question as the fallback is said to extract it: the text after the
\* first "Question:" up to the next line break, without the whitespace
\* around it; "your question" when the prompt has no marker.
QuestionLine(user_prompt) ==
    LET at == Find(user_prompt, MOCK_RESPONSE.marker)
        after == SubSeq(user_prompt, at + Len(MOCK_RESPONSE.marker), Len(user_prompt))
        break == Find(after, <<"\n">>)
    IN  IF at = 0 THEN MOCK_RESPONSE.placeholder
        ELSE strip(IF break = 0 THEN after ELSE SubSeq(after, 1, break - 1))

\* C19 as stated: the fallback answers the canned text of a key found in
\* the lower-cased question line, behind the prefix "Based on the
\* LIGO/Gravity Spy knowledge base, ", and the generic text around the
\* question line when no key is found in it.
C19_FallbackAnswersTheQuestionLine ==
    (gen_pc = "done" /\ gen_result.path # "backend") =>
        LET question == QuestionLine(gen_args.user_prompt)
            found == {i \in 1..Len(mock_responses) :
                         Contains(mock_responses[i].keyword, lower(question))}
        IN  IF found # {}
            THEN \E i \in found :
                     gen_result.text = <<"B", "a", "s", "e", "d", " ", "o", "n", " ", "t", "h", "e", " ", "L", "I", "G", "O", "/", "G", "r", "a", "v", "i", "t", "y", " ", "S", "p", "y", " ", "k", "n", "o", "w", "l", "e", "d", "g", "e", " ", "b", "a", "s", "e", ",", " ">>
                                          \o mock_responses[i].response
            ELSE gen_result.text =
                     MOCK_RESPONSE.generic_head \o question \o MOCK_RESPONSE.generic_tail

\* The one call of the operation that has just finished was made and failed.
CallFailed ==
    \/ /\ gen_pc = "done" /\ client = "azure"
       /\ CompletionOutcomes[gen_backend].kind \in {"AzureError", "Exception"}
    \/ /\ ret_pc = "done" /\ search_client = "azure"
       /\ SearchOutcomes[ret_backend].kind = "raise"
    \/ RequestFailed

---------------------------------------------------------------------------
(* Claims on the ingestion, the prompt context and the /ask pipeline       *)

\* The three conditions on a fetched item: a type of the whitelist, a title
\* that is not blank, and a PDF attachment or a URL that is not empty.
Accepted(item) ==
    /\ item.data.itemType \in
           {Present(<<"j", "o", "u", "r", "n", "a", "l", "A", "r", "t", "i", "c", "l", "e">>), Present(<<"b", "o", "o", "k">>), Present(<<"b", "o", "o", "k", "S", "e", "c", "t", "i", "o", "n">>),
            Present(<<"r", "e", "p", "o", "r", "t">>), Present(<<"t", "h", "e", "s", "i", "s">>), Present(<<"d", "o", "c", "u", "m", "e", "n", "t">>)}
    /\ item.data.title # Absent
    /\ \E i \in 1..Len(item.data.title[1]) : item.data.title[1][i] \notin Whitespace
    /\ \/ \E i \in 1..Len(item.attachments) :
              item.attachments[i] = Present(<<"a", "p", "p", "l", "i", "c", "a", "t", "i", "o", "n", "/", "p", "d", "f">>)
       \/ (item.data.url # Absent /\ item.data.url[1] # EmptyStr)

\* The sync has returned the items it fetched and processed.
SyncedFetchedItems ==
    /\ zot_pc = "done"
    /\ zot_op = "sync_zotero_items"
    /\ zot_result.path = "try"

\* C21: every item a sync returns from its fetch stems from a fetched item
\* that has a whitelisted type, a non-blank title and a PDF attachment or a
\* non-empty URL, and every fetched item with these three is returned.
C21_AcceptsExactlyValidItems ==
    SyncedFetchedItems =>
        LET fetched == RequestOutcomes[zot_backend].items
        IN  /\ \A k \in 1..Len(zot_result.items) :
                   \E i \in 1..Len(fetched) :
                       /\ Accepted(fetched[i])
                       /\ zot_result.items[k].id = Present(StrValue(fetched[i].key[1]))
            /\ \A i \in 1..Len(fetched) :
                   Accepted(fetched[i]) =>
                       \E k \in 1..Len(zot_result.items) :
                           zot_result.items[k].id = Present(StrValue(fetched[i].key[1]))

\* Of a book with a blank title, a book with a PDF and no URL, a report
\* with neither and a thesis with a URL, the second and the fourth came back.
C21_Witness ==
    /\ SyncedFetchedItems
    /\ RequestOutcomes[zot_backend].items =
           <<ZOTERO_ITEMS.blank_title, ZOTERO_ITEMS.book_pdf,
             ZOTERO_ITEMS.report_nolink, ZOTERO_ITEMS.thesis_season>>
    /\ Len(zot_result.items) = 2
    /\ zot_result.items[1].id = Present(StrValue(<<"P", "1">>))
    /\ zot_result.items[2].id = Present(StrValue(<<"T", "1">>))

\* The year an item's date is said to give: its first four characters, and
\* none for an item without a date.
DatePrefix(item) ==
    LET date == Get(item.data, "date", EmptyStr)
    IN  IF date = EmptyStr THEN None
        ELSE Some(SubSeq(date, 1, IF Len(date) < 4 THEN Len(date) ELSE 4))

\* The fetched items that are accepted.
AcceptedItems ==
    {ZOTERO_ITEMS[f] : f \in {g \in DOMAIN ZOTERO_ITEMS :
                                  ZOTERO_ITEMS[g].t = "dict" /\ Accepted(ZOTERO_ITEMS[g])}}

\* C22 as stated: the year of a returned item is the four digits its date
\* begins with, and None for an item without a date; and the chunks made
\* of accepted items carry that year as an integer, or none, and no
\* exception is raised.
C22_YearIsFourDigitPrefix ==
    /\ SyncedFetchedItems =>
           \A k \in 1..Len(zot_result.items) :
               \A item \in AcceptedItems :
                   zot_result.items[k].id = Present(StrValue(item.key[1])) =>
                       IF DatePrefix(item) = None
                       THEN zot_result.items[k].year = Present(NullValue)
                       ELSE /\ zot_result.items[k].year = Present(StrValue(DatePrefix(item)[1]))
                            /\ Len(DatePrefix(item)[1]) = 4
                            /\ \A i \in 1..4 : DatePrefix(item)[1][i] \in Range(Digits)
    /\ ( /\ zot_pc = "done"
         /\ zot_op = "create_document_chunks"
         /\ \A i \in 1..Len(zot_args.items) :
                \E item \in AcceptedItems : zot_args.items[i] = _process_zotero_item(item) ) =>
           /\ zot_result.raised = ""
           /\ Len(zot_result.chunks) = Len(zot_args.items)
           /\ \A i \in 1..Len(zot_args.items) :
                  \A item \in AcceptedItems :
                      zot_args.items[i] = _process_zotero_item(item) =>
                          zot_result.chunks[i].year =
                              IF DatePrefix(item) = None THEN None
                              ELSE py_int(StrValue(DatePrefix(item)[1]))

\* The items a sync can hand on: processed accepted items and mock items.
SyncedItems == {_process_zotero_item(item) : item \in AcceptedItems} \cup Range(mock_items)

\* The sections of the body of an item's chunk: those of Title, Authors,
\* Abstract and Year, in this order, whose value is present.
Sections(item) ==
    LET text(key) ==
            IF item[key][1].t = "int" THEN IntToStr(item[key][1].v[1]) ELSE item[key][1].v
        section(key, label) ==
            IF item[key] # Absent /\ item[key][1].t \in {"str", "int"} /\ text(key) # EmptyStr
            THEN <<label \o text(key)>> ELSE EmptyList
    IN  section("title", <<"T", "i", "t", "l", "e", ":", " ">>) \o section("authors", <<"A", "u", "t", "h", "o", "r", "s", ":", " ">>)
        \o section("abstract", <<"A", "b", "s", "t", "r", "a", "c", "t", ":", " ">>) \o section("year", <<"Y", "e", "a", "r", ":", " ">>)

\* create_document_chunks has finished on a list of items a sync can return.
ChunkedSyncedItems ==
    /\ zot_pc = "done"
    /\ zot_op = "create_document_chunks"
    /\ \A i \in 1..Len(zot_args.items) : zot_args.items[i] \in SyncedItems

\* C23 as stated: create_document_chunks returns one chunk for each item,
\* in the order of the items, with chunk_index 0, source "Zotero", the id
\* "zotero-" and the item's id, and a body of the present sections in the
\* order Title, Authors, Abstract, Year.
C23_OneChunkPerItemInOrder ==
    ChunkedSyncedItems =>
        /\ Len(zot_result.chunks) = Len(zot_args.items)
        /\ \A i \in 1..Len(zot_args.items) :
               LET item == zot_args.items[i]
                   chunk == zot_result.chunks[i]
               IN  /\ chunk.chunk_index = 0
                   /\ chunk.source = <<"Z", "o", "t", "e", "r", "o">>
                   /\ chunk.id = <<"z", "o", "t", "e", "r", "o", "-">> \o item.id[1].v
                   /\ chunk.content = join(<<"\n", "\n">>, Sections(item))

\* The authors string an item is said to get: "First Last" of every
\* creator whose creatorType is "author", in creator order, joined by
\* commas ("Unknown" is let pass for an item that has no such creator).
AuthorsOfAllAuthors(item) ==
    LET creators == Get(item.data, "creators", EmptyList)
        is_author(creator) == creator.creatorType = Present(<<"a", "u", "t", "h", "o", "r">>)
        authors == SelectSeq(creators, is_author)
        names == [i \in 1..Len(authors) |->
                     strip(Get(authors[i], "firstName", EmptyStr) \o <<" ">>
                           \o Get(authors[i], "lastName", EmptyStr))]
    IN  IF authors = EmptyList THEN <<"U", "n", "k", "n", "o", "w", "n">> ELSE join(<<",", " ">>, names)

\* C24 as stated: the authors of a returned item are the comma-joined
\* "First Last" of exactly the creators whose creatorType is "author", in
\* creator order.
C24_AuthorsAreExactlyTheAuthorCreators ==
    SyncedFetchedItems =>
        \A k \in 1..Len(zot_result.items) :
            \A item \in AcceptedItems :
                zot_result.items[k].id = Present(StrValue(item.key[1])) =>
                    zot_result.items[k].authors =
                        Present(StrValue(AuthorsOfAllAuthors(item)))

\* The texts occur in `text` one after the other, without overlap.
RECURSIVE OccurInOrder(_, _)
OccurInOrder(texts, text) ==
    \/ texts = EmptyList
    \/ LET at == Find(text, texts[1])
       IN  /\ at # 0
           /\ OccurInOrder(Tail(texts), SubSeq(text, at + Len(texts[1]), Len(text)))

\* The lines of a chunk in the order they are said to be rendered, with the
\* texts that stand for an absent authors, year and url.
RenderedFields(doc) ==
    << <<"T", "i", "t", "l", "e", ":", " ">> \o doc.title,
       <<"\n", "A", "u", "t", "h", "o", "r", "s", ":", " ">> \o (IF doc.authors = None THEN <<"U", "n", "k", "n", "o", "w", "n">> ELSE doc.authors[1]),
       <<"\n", "S", "o", "u", "r", "c", "e", ":", " ">> \o doc.source,
       <<"\n", "Y", "e", "a", "r", ":", " ">> \o (IF doc.year = None THEN <<"U", "n", "k", "n", "o", "w", "n">> ELSE IntToStr(doc.year[1])),
       <<"\n", "U", "R", "L", ":", " ">> \o (IF doc.url = None THEN <<"N", "o", "t", " ", "a", "v", "a", "i", "l", "a", "b", "l", "e">> ELSE doc.url[1]),
       <<"\n">> \o strip(doc.content) >>

\* create_rag_prompts has rendered its documents.
RenderedDocs == pm_pc = "done" /\ pm_op = "create_rag_prompts"

\* C25: the context is the blocks of the documents in input order with one
\* blank line between two blocks, and the block of a document shows title,
\* authors (or "Unknown"), source, year (or "Unknown"), url (or "Not
\* available") and content, in this order.
C25_ChunksRenderedInFixedOrder ==
    RenderedDocs =>
        LET docs == pm_args.docs
            blocks == [i \in 1..Len(docs) |-> doc_text(i, docs[i])]
        IN  /\ pm_result.context_text = join(<<"\n", "\n">>, blocks)
            /\ \A i \in 1..Len(docs) :
                   /\ OccurInOrder(RenderedFields(docs[i]), blocks[i])
                   /\ blocks[i] = strip(blocks[i])

\* A chunk that has all its fields and one that has none of the optional
\* ones were rendered, "Unknown" and "Not available" standing in the second
\* block, which follows the first after one blank line.
C25_Witness ==
    /\ RenderedDocs
    /\ pm_args.docs = <<mock_docs[1], BareChunk>>
    /\ Contains(strip(mock_docs[1].content) \o <<"\n", "\n", "D", "o", "c", "u", "m", "e", "n", "t", " ", "2", ":", "\n", "T", "i", "t", "l", "e", ":", " ", "L", "I", "G", "O", "\n", "A", "u", "t", "h", "o", "r", "s", ":", " ", "U", "n", "k", "n", "o", "w", "n", "\n", "S", "o", "u", "r", "c", "e", ":", " ", "Z", "o", "t", "e", "r", "o", "\n", "Y", "e", "a", "r", ":", " ", "U", "n", "k", "n", "o", "w", "n", "\n", "U", "R", "L", ":", " ", "N", "o", "t", " ", "a", "v", "a", "i", "l", "a", "b", "l", "e", "\n", "\n", "C", "o", "n", "t", "e", "n", "t", ":", "\n", "L", "I", "G", "O">>,
                pm_result.context_text)

\* The handler of /ask has called the generation for the request in progress.
GenerationInvoked == \E i \in 1..Len(calls) : calls[i] = "generate_mock_response"

\* C26: /ask calls the generation only after the retrieval has returned,
\* and only for a non-empty retrieval; a request whose retrieval is empty
\* completes with the "couldn't find relevant information" response and the
\* generation is never called for it.
C26_GenerationOnlyAfterNonEmptyRetrieval ==
    /\ GenerationInvoked =>
           /\ calls = <<"get_mock_documents", "generate_mock_response">>
           /\ retrieved_docs # EmptyList
    /\ (calls # EmptyList /\ retrieved_docs = EmptyList) => ~GenerationInvoked
    /\ (ask_pc = "done" /\ calls # EmptyList /\ retrieved_docs = EmptyList) =>
           /\ http_status = 200
           /\ chat_response # None
           /\ Contains(COULD_NOT_FIND, chat_response[1].answer)
           /\ chat_response[1].sources_used = 0

\* A request whose question matches no document was answered after the
\* retrieval alone.
C26_Witness ==
    /\ ask_pc = "done"
    /\ request.question = QUESTION.nonsense
    /\ calls = <<"get_mock_documents">>
    /\ retrieved_docs = EmptyList
    /\ http_status = 200

\* /ask has answered a request for which documents were retrieved.
AnsweredFromDocuments ==
    /\ ask_pc = "done"
    /\ http_status = 200
    /\ retrieved_docs # EmptyList

\* C27: the citations of an answer are one for each retrieved document, in
\* retrieval order, with the document's title, authors, url, year and
\* source, whether or not the answer names the document's title.
C27_OneCitationPerRetrievedDocument ==
    AnsweredFromDocuments =>
        /\ chat_response # None
        /\ Len(chat_response[1].citations) = Len(retrieved_docs)
        /\ \A i \in 1..Len(retrieved_docs) :
               /\ chat_response[1].citations[i].title = retrieved_docs[i].title
               /\ chat_response[1].citations[i].authors = Some(retrieved_docs[i].authors)
               /\ chat_response[1].citations[i].url = Some(retrieved_docs[i].url)
               /\ chat_response[1].citations[i].year = Some(retrieved_docs[i].year)
               /\ chat_response[1].citations[i].source = retrieved_docs[i].source

\* "What is LIGO?" was answered from the three documents; the answer names
\* the title of none of them, and the three are cited in their order.
C27_Witness ==
    /\ AnsweredFromDocuments
    /\ request.question = QUESTION.what_is_ligo
    /\ retrieved_docs = MOCK_DOCUMENTS
    /\ \A i \in 1..3 :
           /\ ~Contains(lower(retrieved_docs[i].title), lower(chat_response[1].answer))
           /\ chat_response[1].citations[i].title = MOCK_DOCUMENTS[i].title

\* The keys of the fallback table in their order.
FallbackKeys == <<<<"l", "i", "g", "o">>, <<"g", "r", "a", "v", "i", "t", "y", " ", "s", "p", "y">>, <<"a", "l", "o", "g">>, <<"g", "l", "i", "t", "c", "h">>>>

\* The question the fallback works on: what it extracts from the prompt,
\* lower-cased.
FallbackQuestion(user_prompt) ==
    lower(IF Contains(<<"Q", "u", "e", "s", "t", "i", "o", "n", ":">>, user_prompt)
          THEN strip(SplitOn(SplitOn(user_prompt, <<"Q", "u", "e", "s", "t", "i", "o", "n", ":">>)[2], <<"\n">>)[1])
          ELSE <<"y", "o", "u", "r", " ", "q", "u", "e", "s", "t", "i", "o", "n">>)

\* The generator has answered with its fallback.
FallbackAnswered == gen_pc = "done" /\ gen_result.path # "backend"

\* C28: the fallback answers with the text of the first key, in the order
\* ligo, gravity spy, alog, glitch, that occurs in the question; a question
\* that contains "ligo" gets the LIGO answer whatever other keys it has,
\* from the generator and from the demo application alike.
C28_FirstKeyInTableOrderWins ==
    /\ FallbackAnswered =>
           LET question == FallbackQuestion(gen_args.user_prompt)
               matching == {i \in 1..4 : Contains(FallbackKeys[i], question)}
               first == CHOOSE i \in matching : \A k \in matching : i <= k
           IN  /\ matching # {} =>
                      /\ mock_responses[first].keyword = FallbackKeys[first]
                      /\ gen_result.text = <<"B", "a", "s", "e", "d", " ", "o", "n", " ", "t", "h", "e", " ", "L", "I", "G", "O", "/", "G", "r", "a", "v", "i", "t", "y", " ", "S", "p", "y", " ", "k", "n", "o", "w", "l", "e", "d", "g", "e", " ", "b", "a", "s", "e", ",", " ">>
                                              \o mock_responses[first].response
               /\ 1 \in matching =>
                      Contains(<<"k", "n", "o", "w", "l", "e", "d", "g", "e", " ", "b", "a", "s", "e", ",", " ", "L", "I", "G", "O", " ", "(", "L", "a", "s", "e", "r", " ", "I", "n", "t", "e", "r", "f", "e", "r", "o", "m", "e", "t", "e", "r">>,
                               gen_result.text)
    /\ (ask_pc \in {"generated", "done"} /\ retrieved_docs # EmptyList
           /\ Contains(<<"l", "i", "g", "o">>, lower(request.question))) =>
           Contains(<<"k", "n", "o", "w", "l", "e", "d", "g", "e", " ", "b", "a", "s", "e", ",", " ", "L", "I", "G", "O", " ", "(", "L", "a", "s", "e", "r", " ", "I", "n", "t", "e", "r", "f", "e", "r", "o", "m", "e", "t", "e", "r">>, response)

\* "What causes glitches in LIGO data?" holds the keys ligo and glitch, and
\* the fallback gave the LIGO answer.
C28_Witness ==
    /\ FallbackAnswered
    /\ gen_args.user_prompt = TEST_TEXT.prompt_head \o QUESTION.glitches \o TEST_TEXT.prompt_tail
    /\ Contains(<<"l", "i", "g", "o">>, FallbackQuestion(gen_args.user_prompt))
    /\ Contains(<<"g", "l", "i", "t", "c", "h">>, FallbackQuestion(gen_args.user_prompt))
    /\ gen_result.text = MOCK_RESPONSE.prefix \o mock_responses[1].response

\* What the two retrievers' documents are compared on.
DemoDocumentFields(doc) ==
    <<doc.id, doc.title, doc.authors, doc.url, doc.year, doc.source, doc.content>>

ChunkFields(chunk) ==
    <<chunk.id, chunk.title, chunk.authors[1], chunk.url[1], chunk.year[1], chunk.source,
      chunk.content>>

\* The two sequences hold the same documents in the same order.
SameDocuments(documents, chunks) ==
    /\ Len(documents) = Len(chunks)
    /\ \A i \in 1..Len(documents) :
           /\ chunks[i].authors # None /\ chunks[i].url # None /\ chunks[i].year # None
           /\ DemoDocumentFields(documents[i]) = ChunkFields(chunks[i])

\* C29: for every query and top_k, get_mock_documents of the demo
\* application and _get_mock_documents of the retriever return the same
\* documents in the same order: equal id, title, authors, url, year, source
\* and content.
C29_KeywordRetrieversAgree ==
    /\ (ret_pc = "done" /\ ret_result.path = "except") =>
           SameDocuments(get_mock_documents(ret_args.query, ret_args.top_k),
                         ret_result.documents)
    /\ ask_pc \in {"retrieved", "generated", "done"} /\ calls # EmptyList =>
           SameDocuments(retrieved_docs,
                         _get_mock_documents(request.question, request.top_k))

\* The retriever fell back for "What is LIGO?" with top_k 2 and returned
\* the two documents the demo application returns for it.
C29_Witness ==
    /\ ret_pc = "done"
    /\ ret_result.path = "except"
    /\ ret_args = [query |-> QUESTION.what_is_ligo, top_k |-> Some(2)]
    /\ Len(ret_result.documents) = 2
    /\ ret_result.documents[2].id = MOCK_DOCUMENTS[2].id
    /\ ret_result.documents[2].content = MOCK_DOCUMENTS[2].content

\* A sync has finished; what the API did for it.
SyncFinished == zot_pc = "done" /\ zot_op = "sync_zotero_items"

SyncOutcome == RequestOutcomes[zot_backend]

\* C30: a sync whose request fails with a RequestException returns the
\* three mock items; a sync in which anything else raises, while fetching
\* or while processing the fetched items, returns the empty list; no failed
\* sync returns the items it had processed.
C30_TwoFailureOutcomes ==
    SyncFinished =>
        /\ (SyncOutcome.kind = "raise" /\ SyncOutcome.exc = "RequestException") =>
               /\ zot_result.items = mock_items
               /\ Len(zot_result.items) = 3
        /\ ( \/ (SyncOutcome.kind = "raise" /\ SyncOutcome.exc # "RequestException")
             \/ \E i \in 1..Len(SyncOutcome.items) : SyncOutcome.items[i].t # "dict" ) =>
               zot_result.items = EmptyList
        /\ zot_result.path # "try" =>
               \A k \in 1..Len(zot_result.items) :
                   \A i \in 1..Len(SyncOutcome.items) :
                       SyncOutcome.items[i].key # Absent =>
                           zot_result.items[k].id
                               # Present(StrValue(SyncOutcome.items[i].key[1]))

\* The API returned an accepted article and then an element that is no
\* dict: the sync returned the empty list, without the article.
C30_Witness ==
    /\ SyncFinished
    /\ SyncOutcome.items = <<ZOTERO_ITEMS.article, ZOTERO_ITEMS.not_a_dict>>
    /\ Accepted(ZOTERO_ITEMS.article)
    /\ zot_result.path = "except Exception"
    /\ zot_result.items = EmptyList

=============================================================================
